---- MODULE Spec2Model ----
(***************************************************************************)
(* Model of the mark CLI: the argument tokenizer and path resolver         *)
(* (parseArgs), the field binder (parseFromSchema, coerceValue) and the    *)
(* single-invocation run with its local/remote dispatch, and the printer   *)
(* of results (formatOutput).                                              *)
(*                                                                         *)
(* A JavaScript string is a sequence of one-character strings, so that     *)
(* startsWith, indexOf, slice and the regular expressions of the source    *)
(* are computed character by character.  A JavaScript value is a record    *)
(* tagged by its type.  A plain object is the sequence of its own          *)
(* properties in insertion order.  Array indices are 1-based here: the     *)
(* variable i is the source's i + 1.                                       *)
(***************************************************************************)
EXTENDS Integers, Sequences, FiniteSets, TLC

VARIABLES
  pc,          \* position of the operation under way
  argv,        \* process.argv.slice(2)
  procedures,  \* PROCEDURE_REGISTRY.getAll(): sequence of procedures
  i,           \* parseArgs: index of the next token of argv (1-based)
  path,        \* parseArgs: collected path segments
  args,        \* parseArgs: positional tokens (params.array of the binder)
  options,     \* parseArgs: flags object (params.options of the binder)
  meta,        \* parseFromSchema: the CLIMeta of the matched procedure
  k,           \* parseFromSchema: index of the next entry of options
  input,       \* parseFromSchema: the object under construction
  cin,         \* coerceValue: argument
  cout,        \* coerceValue: result
  lockfile,    \* ~/.mark/server.lock: "absent" or "present"
  alive,       \* whether the pid recorded in the lockfile is a running process
  exitCode,    \* process.exitCode (0 while unset)
  printed,     \* what the run has printed, in order
  calls,       \* the handler executions caused so far, in order
  fsops,       \* the operations made on the lockfile so far, in order
  invocation,  \* the number of the run under way (1 for the first)
  result,      \* formatOutput: the value to print
  fmt,         \* formatOutput: the format hint
  loaded,      \* whether the run under way has loaded the ecosystem procedures
  processes    \* server mode: the server and client processes, by pid

inVars == <<argv, procedures, result, fmt>>
parseVars == <<i, path, args, options>>
bindVars == <<meta, k, input>>
coerceVars == <<cin, cout>>
hostVars == <<alive, fsops, invocation, loaded>>
serverVars == <<processes>>
runVars == <<lockfile, hostVars, exitCode, printed, calls>>

vars == <<pc, inVars, parseVars, bindVars, coerceVars, runVars, serverVars>>

(***************************************************************************)
(* Bounds of the model.                                                    *)
(***************************************************************************)
MaxArgv == 3
MaxArray == 2
MaxOptions == 2
MaxCoerceLen == 2
MaxRunArgv == 3
MaxRuns == 2

(***************************************************************************)
(* Strings.                                                                *)
(***************************************************************************)
Digits == {"0", "1", "2", "3", "4", "5", "6", "7", "8", "9"}

Lower == <<"a", "b", "c", "d", "e", "f", "g", "h", "i", "j", "k", "l", "m",
           "n", "o", "p", "q", "r", "s", "t", "u", "v", "w", "x", "y", "z">>

Upper == <<"A", "B", "C", "D", "E", "F", "G", "H", "I", "J", "K", "L", "M",
           "N", "O", "P", "Q", "R", "S", "T", "U", "V", "W", "X", "Y", "Z">>

Min(a, b) == IF a < b THEN a ELSE b

startsWith(s, p) == Len(s) >= Len(p) /\ SubSeq(s, 1, Len(p)) = p

endsWith(s, p) == Len(s) >= Len(p) /\ SubSeq(s, Len(s) - Len(p) + 1, Len(s)) = p

\* String.prototype.indexOf for a one-character pattern: 0-based, -1 when absent
indexOf(s, c) ==
  IF \E n \in 1..Len(s) : s[n] = c
    THEN (CHOOSE n \in 1..Len(s) : s[n] = c /\ \A m \in 1..(n - 1) : s[m] # c) - 1
    ELSE -1

includesChar(s, c) == indexOf(s, c) # -1

\* String.prototype.slice(a, b) and slice(a) for non-negative 0-based a, b
slice(s, a, b) == SubSeq(s, a + 1, Min(b, Len(s)))

sliceFrom(s, a) == SubSeq(s, a + 1, Len(s))

\* /^\d+$/.test(s)
isDigitString(s) == Len(s) > 0 /\ \A n \in 1..Len(s) : s[n] \in Digits

DigitValue(c) == CHOOSE d \in 0..9 : <<"0", "1", "2", "3", "4", "5", "6", "7", "8", "9">>[d + 1] = c

RECURSIVE DecimalValue(_)
DecimalValue(s) ==
  IF Len(s) = 0 THEN 0
  ELSE 10 * DecimalValue(SubSeq(s, 1, Len(s) - 1)) + DigitValue(s[Len(s)])

sTrue == <<"t", "r", "u", "e">>
sFalse == <<"f", "a", "l", "s", "e">>
sDash == <<"-">>
sDashDash == <<"-", "-">>

(***************************************************************************)
(* Values and plain objects.                                               *)
(***************************************************************************)
Str(s) == [t |-> "string", s |-> s]
Bool(b) == [t |-> "boolean", b |-> b]
Undefined == [t |-> "undefined"]

isString(v) == v.t = "string"

ObjHas(o, key) == \E n \in 1..Len(o) : o[n].k = key

\* o[key]
ObjGet(o, key) ==
  IF ObjHas(o, key) THEN o[CHOOSE n \in 1..Len(o) : o[n].k = key].v ELSE Undefined

\* o[key] = value: an existing property keeps its place, a new one goes last
ObjSet(o, key, value) ==
  IF ObjHas(o, key)
    THEN [n \in 1..Len(o) |-> IF o[n].k = key THEN [k |-> key, v |-> value] ELSE o[n]]
    ELSE Append(o, [k |-> key, v |-> value])

ObjKeys(o) == {o[n].k : n \in 1..Len(o)}

\* delete o[key]
ObjDelete(o, key) == SelectSeq(o, LAMBDA e : e.k # key)

\* a <= b for digit strings without leading zeros, compared as numbers
RECURSIVE DigitsLeq(_, _)
DigitsLeq(a, b) ==
  IF Len(a) # Len(b) THEN Len(a) < Len(b)
  ELSE IF Len(a) = 0 THEN TRUE
  ELSE IF a[1] # b[1] THEN DigitValue(a[1]) < DigitValue(b[1])
  ELSE DigitsLeq(Tail(a), Tail(b))

\* 2^32 - 2, the largest array index
MaxArrayIndex == <<"4", "2", "9", "4", "9", "6", "7", "2", "9", "4">>

\* a canonical array index: own properties with such keys are enumerated first
isArrayIndex(key) ==
  /\ isDigitString(key)
  /\ (Len(key) = 1 \/ key[1] # "0")
  /\ DigitsLeq(key, MaxArrayIndex)

RECURSIVE SortByIndex(_)
SortByIndex(es) ==
  IF Len(es) = 0 THEN <<>>
  ELSE LET m == CHOOSE n \in 1..Len(es) :
                  \A q \in 1..Len(es) : DigitsLeq(es[n].k, es[q].k)
       IN <<es[m]>> \o SortByIndex(SubSeq(es, 1, m - 1) \o SubSeq(es, m + 1, Len(es)))

\* Object.entries(o): integer keys ascending, then string keys in insertion order
ObjectEntries(o) ==
  SortByIndex(SelectSeq(o, LAMBDA e : isArrayIndex(e.k)))
    \o SelectSeq(o, LAMBDA e : ~isArrayIndex(e.k))

(***************************************************************************)
(* Numbers.  A finite number is the double nearest to (-1)^neg * m * 10^e, *)
(* kept with m free of trailing zeros; the literals read here have at most *)
(* nine significant digits.                                                *)
(***************************************************************************)
NaN == [t |-> "number", kind |-> "NaN"]
Infinite(neg) == [t |-> "number", kind |-> "infinite", neg |-> neg]

RECURSIVE Normal(_, _, _)
Normal(neg, m, e) ==
  IF m = 0 THEN [t |-> "number", kind |-> "finite", neg |-> neg, m |-> 0, e |-> 0]
  ELSE IF m % 10 = 0 THEN Normal(neg, m \div 10, e + 1)
  ELSE [t |-> "number", kind |-> "finite", neg |-> neg, m |-> m, e |-> e]

Num(n) == Normal(n < 0, IF n < 0 THEN -n ELSE n, 0)

RECURSIVE NumDigits(_)
NumDigits(m) == IF m < 10 THEN 1 ELSE 1 + NumDigits(m \div 10)

RECURSIVE Pow10(_)
Pow10(n) == IF n = 0 THEN 1 ELSE 10 * Pow10(n - 1)

\* m * 10^e rounds to Infinity: at or above 1.7976931348623158e308
Overflows(m, e) ==
  /\ m # 0
  /\ \/ NumDigits(m) + e > 309
     \/ NumDigits(m) + e = 309 /\ m * Pow10(9 - NumDigits(m)) > 179769313

Finite(neg, m, e) ==
  LET n == Normal(neg, m, e)
  IN IF Overflows(n.m, n.e) THEN Infinite(neg) ELSE n

WhiteSpace == {" ", "\t", "\n", "\r"}

RECURSIVE trimStart(_)
trimStart(s) == IF Len(s) > 0 /\ s[1] \in WhiteSpace THEN trimStart(Tail(s)) ELSE s

RECURSIVE trimEnd(_)
trimEnd(s) ==
  IF Len(s) > 0 /\ s[Len(s)] \in WhiteSpace THEN trimEnd(SubSeq(s, 1, Len(s) - 1)) ELSE s

\* String.prototype.trim
trim(s) == trimEnd(trimStart(s))

sInfinity == <<"I", "n", "f", "i", "n", "i", "t", "y">>

isSign(c) == c \in {"+", "-"}

\* the length of the longest prefix of s made of decimal digits
RECURSIVE DigitRun(_)
DigitRun(s) == IF Len(s) > 0 /\ s[1] \in Digits THEN 1 + DigitRun(Tail(s)) ELSE 0

\* StrUnsignedDecimalLiteral without Infinity: digits [. digits] [e [sign] digits]
UnsignedDecimal(neg, u) ==
  LET ni == DigitRun(u)
      afterInt == sliceFrom(u, ni)
      hasDot == Len(afterInt) > 0 /\ afterInt[1] = "."
      afterDot == IF hasDot THEN Tail(afterInt) ELSE afterInt
      nf == IF hasDot THEN DigitRun(afterDot) ELSE 0
      afterFrac == sliceFrom(afterDot, nf)
      hasExp == Len(afterFrac) > 0 /\ afterFrac[1] \in {"e", "E"}
      expPart == IF hasExp THEN Tail(afterFrac) ELSE <<>>
      expNeg == Len(expPart) > 0 /\ expPart[1] = "-"
      expDigits == IF Len(expPart) > 0 /\ isSign(expPart[1]) THEN Tail(expPart) ELSE expPart
      mantissa == DecimalValue(SubSeq(u, 1, ni) \o SubSeq(afterDot, 1, nf))
      exponent == IF hasExp
                    THEN (IF expNeg THEN -DecimalValue(expDigits) ELSE DecimalValue(expDigits))
                    ELSE 0
  IN IF ni + nf = 0 THEN NaN
     ELSE IF hasExp /\ ~isDigitString(expDigits) THEN NaN
     ELSE IF ~hasExp /\ Len(afterFrac) > 0 THEN NaN
     ELSE Finite(neg, mantissa, exponent - nf)

HexDigits == <<"0", "1", "2", "3", "4", "5", "6", "7", "8", "9", "a", "b", "c", "d", "e", "f">>
HexUpper == <<"0", "1", "2", "3", "4", "5", "6", "7", "8", "9", "A", "B", "C", "D", "E", "F">>

isRadixDigit(c, radix) == \E d \in 1..radix : HexDigits[d] = c \/ HexUpper[d] = c

RadixDigitValue(c) == (CHOOSE d \in 1..16 : HexDigits[d] = c \/ HexUpper[d] = c) - 1

RECURSIVE RadixValue(_, _)
RadixValue(s, radix) ==
  IF Len(s) = 0 THEN 0
  ELSE radix * RadixValue(SubSeq(s, 1, Len(s) - 1), radix) + RadixDigitValue(s[Len(s)])

RadixOf(c) == IF c \in {"x", "X"} THEN 16 ELSE IF c \in {"o", "O"} THEN 8 ELSE 2

\* Number(s) for a string s: the StringNumericLiteral grammar
Number(s) ==
  LET u == trim(s)
      signed == Len(u) > 0 /\ isSign(u[1])
      neg == Len(u) > 0 /\ u[1] = "-"
      body == IF signed THEN Tail(u) ELSE u
  IN IF Len(u) = 0 THEN Num(0)
     ELSE IF body = sInfinity THEN Infinite(neg)
     ELSE IF Len(u) >= 2 /\ u[1] = "0" /\ u[2] \in {"x", "X", "o", "O", "b", "B"}
       THEN IF Len(u) > 2 /\ \A n \in 3..Len(u) : isRadixDigit(u[n], RadixOf(u[2]))
              THEN Finite(FALSE, RadixValue(sliceFrom(u, 2), RadixOf(u[2])), 0)
              ELSE NaN
     ELSE UnsignedDecimal(neg, body)

isNaN(v) == v.t = "number" /\ v.kind = "NaN"

(***************************************************************************)
(* JSON.parse, on texts without backslash escapes.  A parse result is      *)
(* [ok, v, rest]: whether a value was read, the value, the text left.      *)
(***************************************************************************)
Null == [t |-> "null"]
Obj(o) == [t |-> "object", o |-> o]
Arr(a) == [t |-> "array", a |-> a]

JFail == [ok |-> FALSE, v |-> Null, rest |-> <<>>]
JOk(v, rest) == [ok |-> TRUE, v |-> v, rest |-> rest]

sNull == <<"n", "u", "l", "l">>

\* JSON string: the characters up to the closing quote (s follows the opening one)
JString(s) ==
  LET q == indexOf(s, "\"")
  IN IF q = -1 THEN JFail ELSE JOk(Str(slice(s, 0, q)), sliceFrom(s, q + 1))

\* JSON number: -? (0 | [1-9] digits) (. digits+)? ([eE] [+-]? digits+)?
JNumber(s) ==
  LET neg == Len(s) > 0 /\ s[1] = "-"
      u == IF neg THEN Tail(s) ELSE s
      ni == DigitRun(u)
      afterInt == sliceFrom(u, ni)
      hasDot == Len(afterInt) > 0 /\ afterInt[1] = "."
      nf == IF hasDot THEN DigitRun(Tail(afterInt)) ELSE 0
      afterFrac == IF hasDot THEN sliceFrom(afterInt, nf + 1) ELSE afterInt
      hasExp == Len(afterFrac) > 0 /\ afterFrac[1] \in {"e", "E"}
      expPart == IF hasExp THEN Tail(afterFrac) ELSE <<>>
      expSigned == Len(expPart) > 0 /\ isSign(expPart[1])
      expBody == IF expSigned THEN Tail(expPart) ELSE expPart
      ne == DigitRun(expBody)
      rest == IF hasExp THEN sliceFrom(expBody, ne) ELSE afterFrac
      mantissa == DecimalValue(SubSeq(u, 1, ni) \o SubSeq(afterInt, 2, nf + 1))
      expValue == DecimalValue(SubSeq(expBody, 1, ne))
      exponent == IF ~hasExp THEN 0
                  ELSE IF Len(expPart) > 0 /\ expPart[1] = "-" THEN -expValue ELSE expValue
  IN IF ni = 0 \/ (ni > 1 /\ u[1] = "0") THEN JFail
     ELSE IF hasDot /\ nf = 0 THEN JFail
     ELSE IF hasExp /\ ne = 0 THEN JFail
     ELSE JOk(Finite(neg, mantissa, exponent - nf), rest)

RECURSIVE JValue(_), JElements(_, _), JMembers(_, _)

\* after the element read as r: "," and the next element, or "]"
JAfterElement(r, acc) ==
  LET t1 == trimStart(r.rest)
  IN IF ~r.ok THEN JFail
     ELSE IF Len(t1) > 0 /\ t1[1] = "," THEN JElements(Tail(t1), Append(acc, r.v))
     ELSE IF Len(t1) > 0 /\ t1[1] = "]" THEN JOk(Arr(Append(acc, r.v)), Tail(t1))
     ELSE JFail

\* the elements of an array after "[" or ",": s starts at an element
JElements(s, acc) == JAfterElement(JValue(s), acc)

\* after the member key : r, "," and the next member, or "}"
JAfterMember(key, r, acc) ==
  LET t2 == trimStart(r.rest)
  IN IF ~r.ok THEN JFail
     ELSE IF Len(t2) > 0 /\ t2[1] = "," THEN JMembers(Tail(t2), ObjSet(acc, key.v.s, r.v))
     ELSE IF Len(t2) > 0 /\ t2[1] = "}" THEN JOk(Obj(ObjSet(acc, key.v.s, r.v)), Tail(t2))
     ELSE JFail

\* after the key of a member: ":" and its value
JAfterKey(key, acc) ==
  LET t1 == trimStart(key.rest)
  IN JAfterMember(key,
                  IF key.ok /\ Len(t1) > 0 /\ t1[1] = ":" THEN JValue(Tail(t1)) ELSE JFail,
                  acc)

\* the members of an object after "{" or ",": s starts at a key
JMembers(s, acc) ==
  LET t0 == trimStart(s)
  IN JAfterKey(IF Len(t0) > 0 /\ t0[1] = "\"" THEN JString(Tail(t0)) ELSE JFail, acc)

\* a value that starts at t0
JValueAt(t0) ==
  LET t1 == trimStart(Tail(t0))
  IN IF Len(t0) = 0 THEN JFail
     ELSE IF t0[1] = "{" THEN
       (IF Len(t1) > 0 /\ t1[1] = "}" THEN JOk(Obj(<<>>), Tail(t1))
                                       ELSE JMembers(Tail(t0), <<>>))
     ELSE IF t0[1] = "[" THEN
       (IF Len(t1) > 0 /\ t1[1] = "]" THEN JOk(Arr(<<>>), Tail(t1))
                                       ELSE JElements(Tail(t0), <<>>))
     ELSE IF t0[1] = "\"" THEN JString(Tail(t0))
     ELSE IF startsWith(t0, sTrue) THEN JOk(Bool(TRUE), sliceFrom(t0, 4))
     ELSE IF startsWith(t0, sFalse) THEN JOk(Bool(FALSE), sliceFrom(t0, 5))
     ELSE IF startsWith(t0, sNull) THEN JOk(Null, sliceFrom(t0, 4))
     ELSE JNumber(t0)

JValue(s) == JValueAt(trimStart(s))

\* the whole text is one value
JWhole(r) == IF r.ok /\ Len(trimStart(r.rest)) = 0 THEN r ELSE JFail

\* JSON.parse(s): [ok |-> FALSE] stands for the SyntaxError it throws
JSONparse(s) == JWhole(JValue(s))

(***************************************************************************)
(* coerceValue.                                                            *)
(***************************************************************************)
\* try { return JSON.parse(value) } catch {}; return value
ParsedOrKept(parsed, value) == IF parsed.ok THEN parsed.v ELSE value

\* the number-like and JSON-like branches, num being Number(value)
coerceString(value, num) ==
  IF ~isNaN(num) /\ trim(value.s) # <<>> THEN num
  ELSE IF \/ startsWith(value.s, <<"{">>) /\ endsWith(value.s, <<"}">>)
          \/ startsWith(value.s, <<"[">>) /\ endsWith(value.s, <<"]">>)
    THEN ParsedOrKept(JSONparse(value.s), value)
  ELSE value

coerceValue(value) ==
  IF value.t \in {"undefined", "null"} THEN value
  ELSE IF value.t # "string" THEN value
  ELSE IF value.s = sTrue THEN Bool(TRUE)
  ELSE IF value.s = sFalse THEN Bool(FALSE)
  ELSE coerceString(value, Number(value.s))

(***************************************************************************)
(* parseFromSchema.  meta is [args, shorts, output]: args the sequence of  *)
(* positional field names, shorts the object { field: short }.             *)
(***************************************************************************)
toUpperCase(c) ==
  IF \E n \in 1..26 : Lower[n] = c THEN Upper[CHOOSE n \in 1..26 : Lower[n] = c] ELSE c

isLower(c) == \E n \in 1..26 : Lower[n] = c

\* key.replace(/-([a-z])/g, (_, c) => c.toUpperCase())
RECURSIVE kebabToCamel(_)
kebabToCamel(s) ==
  IF Len(s) = 0 THEN <<>>
  ELSE IF s[1] = "-" /\ Len(s) >= 2 /\ isLower(s[2])
    THEN <<toUpperCase(s[2])>> \o kebabToCamel(SubSeq(s, 3, Len(s)))
  ELSE <<s[1]>> \o kebabToCamel(Tail(s))

\* positionalArgs.forEach with the index taken one too far
RECURSIVE BindPositionalsShifted(_, _, _, _)
BindPositionalsShifted(inp, positionalArgs, positionalValues, n) ==
  IF n > Len(positionalArgs) THEN inp
  ELSE BindPositionalsShifted(
         IF n + 1 <= Len(positionalValues)
           THEN ObjSet(inp, positionalArgs[n], coerceValue(Str(positionalValues[n + 1])))
           ELSE inp,
         positionalArgs, positionalValues, n + 1)

\* positionalArgs.forEach((field, i) => ...), from the n-th field on
RECURSIVE BindPositionals(_, _, _, _)
BindPositionals(inp, positionalArgs, positionalValues, n) ==
  IF n > Len(positionalArgs) THEN inp
  ELSE BindPositionals(
         IF n <= Len(positionalValues)
           THEN ObjSet(inp, positionalArgs[n], coerceValue(Str(positionalValues[n])))
           ELSE inp,
         positionalArgs, positionalValues, n + 1)

\* the reverse lookup { short: field } built from Object.entries(shorts)
RECURSIVE ShortToField(_, _)
ShortToField(entries, acc) ==
  IF Len(entries) = 0 THEN acc
  ELSE ShortToField(Tail(entries), ObjSet(acc, entries[1].v, entries[1].k))

includes(arr, x) == \E n \in 1..Len(arr) : arr[n] = x

\* the field a flag key is bound under
FieldOf(key, shortToField) ==
  IF ObjHas(shortToField, key) /\ Len(ObjGet(shortToField, key)) > 0
    THEN ObjGet(shortToField, key)
  ELSE IF includesChar(key, "-") THEN kebabToCamel(key)
  ELSE key

\* the body of the loop over the options, without the skip of a set positional
BindOptionNoSkip(inp, entry, positionalArgs, shortToField) ==
  ObjSet(inp, FieldOf(entry.k, shortToField), coerceValue(entry.v))

\* the body of the loop over Object.entries(options)
BindOption(inp, entry, positionalArgs, shortToField) ==
  IF includes(positionalArgs, entry.k) /\ ObjGet(inp, entry.k) # Undefined
    THEN inp
    ELSE ObjSet(inp, FieldOf(entry.k, shortToField), coerceValue(entry.v))

RECURSIVE BindOptions(_, _, _, _)
BindOptions(inp, entries, positionalArgs, shortToField) ==
  IF Len(entries) = 0 THEN inp
  ELSE BindOptions(BindOption(inp, entries[1], positionalArgs, shortToField),
                   Tail(entries), positionalArgs, shortToField)

\* parseFromSchema({ array, options }, meta)
parseFromSchema(array, opts, m) ==
  BindOptions(BindPositionals(<<>>, m.args, array, 1), ObjectEntries(opts), m.args,
              ShortToField(ObjectEntries(m.shorts), <<>>))

(***************************************************************************)
(* Procedures.                                                             *)
(***************************************************************************)
\* metadata ?? {}: no positional fields, no shorts, no output hint
NoMeta == [args |-> <<>>, shorts |-> <<>>, output |-> "none"]

\* a procedure: its path, its metadata and whether it has an input schema
Proc(p) == [path |-> p, metadata |-> NoMeta, schema |-> FALSE]

findProcedureHas(procs, p) == \E n \in 1..Len(procs) : procs[n].path = p

\* procedures.find(...): the first procedure whose path equals p
findProcedure(procs, p) ==
  procs[CHOOSE n \in 1..Len(procs) :
          procs[n].path = p /\ \A m \in 1..(n - 1) : procs[m].path # p]

\* procedures.filter(...): procedures strictly below p
findChildren(procs, p) ==
  SelectSeq(procs, LAMBDA q : Len(q.path) > Len(p) /\ SubSeq(q.path, 1, Len(p)) = p)

(***************************************************************************)
(* parseArgs: one iteration of each of its two loops.  A parse state is    *)
(* [ph, i, path, args, options]; ph is the loop under way.                 *)
(***************************************************************************)
ParseStart == [ph |-> "path", i |-> 1, path |-> <<>>, args |-> <<>>, options |-> <<>>]

\* PathStep with "has children" tested before the exact match
PathStepChildrenFirst(st, av, procs) ==
  IF st.i > Len(av) THEN [st EXCEPT !.ph = "flags"]
  ELSE
    LET current == av[st.i]
        testPath == Append(st.path, current)
        exactMatch == \E n \in 1..Len(procs) : procs[n].path = testPath
        hasChildren ==
          \E n \in 1..Len(procs) :
            Len(procs[n].path) > Len(testPath)
              /\ SubSeq(procs[n].path, 1, Len(testPath)) = testPath
    IN IF startsWith(current, sDash) THEN [st EXCEPT !.ph = "flags"]
       ELSE IF hasChildren
         THEN [st EXCEPT !.path = testPath, !.i = st.i + 1]
       ELSE IF exactMatch
         THEN [st EXCEPT !.path = testPath, !.i = st.i + 1, !.ph = "flags"]
       ELSE IF Len(st.path) = 0
         THEN [st EXCEPT !.path = testPath, !.i = st.i + 1]
       ELSE [st EXCEPT !.ph = "flags"]

\* PathStep without the i++ of the exact-match branch
PathStepNoAdvance(st, av, procs) ==
  IF st.i > Len(av) THEN [st EXCEPT !.ph = "flags"]
  ELSE
    LET current == av[st.i]
        testPath == Append(st.path, current)
        exactMatch == \E n \in 1..Len(procs) : procs[n].path = testPath
        hasChildren ==
          \E n \in 1..Len(procs) :
            Len(procs[n].path) > Len(testPath)
              /\ SubSeq(procs[n].path, 1, Len(testPath)) = testPath
    IN IF startsWith(current, sDash) THEN [st EXCEPT !.ph = "flags"]
       ELSE IF exactMatch
         THEN [st EXCEPT !.path = testPath, !.ph = "flags"]
       ELSE IF hasChildren
         THEN [st EXCEPT !.path = testPath, !.i = st.i + 1]
       ELSE IF Len(st.path) = 0
         THEN [st EXCEPT !.path = testPath, !.i = st.i + 1]
       ELSE [st EXCEPT !.ph = "flags"]

\* PathStep with an i++ before the break of the last branch
PathStepSkipOnBreak(st, av, procs) ==
  IF st.i > Len(av) THEN [st EXCEPT !.ph = "flags"]
  ELSE
    LET current == av[st.i]
        testPath == Append(st.path, current)
        exactMatch == \E n \in 1..Len(procs) : procs[n].path = testPath
        hasChildren ==
          \E n \in 1..Len(procs) :
            Len(procs[n].path) > Len(testPath)
              /\ SubSeq(procs[n].path, 1, Len(testPath)) = testPath
    IN IF startsWith(current, sDash) THEN [st EXCEPT !.ph = "flags"]
       ELSE IF exactMatch
         THEN [st EXCEPT !.path = testPath, !.i = st.i + 1, !.ph = "flags"]
       ELSE IF hasChildren
         THEN [st EXCEPT !.path = testPath, !.i = st.i + 1]
       ELSE IF Len(st.path) = 0
         THEN [st EXCEPT !.path = testPath, !.i = st.i + 1]
       ELSE [st EXCEPT !.i = st.i + 1, !.ph = "flags"]

\* PathStep without the branch that commits an unknown first token
PathStepFirstMustMatch(st, av, procs) ==
  IF st.i > Len(av) THEN [st EXCEPT !.ph = "flags"]
  ELSE
    LET current == av[st.i]
        testPath == Append(st.path, current)
        exactMatch == \E n \in 1..Len(procs) : procs[n].path = testPath
        hasChildren ==
          \E n \in 1..Len(procs) :
            Len(procs[n].path) > Len(testPath)
              /\ SubSeq(procs[n].path, 1, Len(testPath)) = testPath
    IN IF startsWith(current, sDash) THEN [st EXCEPT !.ph = "flags"]
       ELSE IF exactMatch
         THEN [st EXCEPT !.path = testPath, !.i = st.i + 1, !.ph = "flags"]
       ELSE IF hasChildren
         THEN [st EXCEPT !.path = testPath, !.i = st.i + 1]
       ELSE [st EXCEPT !.ph = "flags"]

\* the first loop: collect path segments
PathStep(st, av, procs) ==
  IF st.i > Len(av) THEN [st EXCEPT !.ph = "flags"]
  ELSE
    LET current == av[st.i]
        testPath == Append(st.path, current)
        exactMatch == findProcedureHas(procs, testPath)
        hasChildren == Len(findChildren(procs, testPath)) > 0
    IN IF startsWith(current, sDash) THEN [st EXCEPT !.ph = "flags"]
       ELSE IF exactMatch
         THEN [st EXCEPT !.path = testPath, !.i = st.i + 1, !.ph = "flags"]
       ELSE IF hasChildren
         THEN [st EXCEPT !.path = testPath, !.i = st.i + 1]
       ELSE IF Len(st.path) = 0
         THEN [st EXCEPT !.path = testPath, !.i = st.i + 1]
       ELSE [st EXCEPT !.ph = "flags"]

\* LongFlagTakesNext without the test for a pure-digit token
LongFlagTakesDigits(next) ==
  /\ ~startsWith(next, sDash)
  /\ next # sTrue /\ next # sFalse

\* --name followed by next: is next taken as the value of the flag
LongFlagTakesNext(next) ==
  /\ ~startsWith(next, sDash)
  /\ next # sTrue /\ next # sFalse /\ ~isDigitString(next)

\* -x followed by next: is next taken as the value of the flag
ShortFlagTakesNext(next) == ~startsWith(next, sDash)

\* the second loop: flags and positional tokens
FlagStep(st, av) ==
  IF st.i > Len(av) THEN [st EXCEPT !.ph = "parsed"]
  ELSE
    LET arg == av[st.i]
        hasNext == st.i + 1 <= Len(av)
        next == IF hasNext THEN av[st.i + 1] ELSE <<>>
    IN IF startsWith(arg, sDashDash) THEN
         LET eqIndex == indexOf(arg, "=")
         IN IF eqIndex # -1
              THEN [st EXCEPT !.options = ObjSet(st.options, slice(arg, 2, eqIndex),
                                                 Str(sliceFrom(arg, eqIndex + 1))),
                              !.i = st.i + 1]
            ELSE IF hasNext /\ LongFlagTakesNext(next)
              THEN [st EXCEPT !.options = ObjSet(st.options, sliceFrom(arg, 2), Str(next)),
                              !.i = st.i + 2]
            ELSE [st EXCEPT !.options = ObjSet(st.options, sliceFrom(arg, 2), Bool(TRUE)),
                            !.i = st.i + 1]
       ELSE IF startsWith(arg, sDash) /\ Len(arg) = 2 THEN
         IF hasNext /\ ShortFlagTakesNext(next)
           THEN [st EXCEPT !.options = ObjSet(st.options, sliceFrom(arg, 1), Str(next)),
                           !.i = st.i + 2]
         ELSE [st EXCEPT !.options = ObjSet(st.options, sliceFrom(arg, 1), Bool(TRUE)),
                         !.i = st.i + 1]
       ELSE [st EXCEPT !.args = Append(st.args, arg), !.i = st.i + 1]

ParseStep(st, av, procs) ==
  IF st.ph = "path" THEN PathStep(st, av, procs) ELSE FlagStep(st, av)

RECURSIVE ParseRun(_, _, _)
ParseRun(st, av, procs) ==
  IF st.ph = "parsed" THEN st ELSE ParseRun(ParseStep(st, av, procs), av, procs)

\* parseArgs(argv, procedures): { path, args, options }
parseArgs(av, procs) == ParseRun(ParseStart, av, procs)

(***************************************************************************)
(* Inputs of the tokenizer and resolver.                                   *)
(***************************************************************************)
SeqsUpTo(S, n) == UNION {[1..m -> S] : m \in 0..n}

tA == <<"a">>
tB == <<"b">>
tX == <<"x">>
tSeven == <<"7">>
tLong == <<"-", "-", "n">>
tLongEq == <<"-", "-", "n", "=", "v">>
tShort == <<"-", "s">>

ParseTokens == {tA, tB, tX, tSeven, sTrue, sFalse, sDash, tLong, tLongEq, tShort}

ParseProcedures ==
  { <<>>,
    <<Proc(<<tA>>)>>,
    <<Proc(<<tA>>), Proc(<<tA, tB>>)>>,
    <<Proc(<<tA, tB>>)>>,
    <<Proc(<<tA, tB>>), Proc(<<tB>>)>>,
    <<Proc(<<tA, tB, tA>>)>>,
    <<Proc(<<tA, tB>>), Proc(<<tA, tB, tA>>)>>,
    <<Proc(<<tB, tA>>), Proc(<<tA, tA>>)>> }

BindIdle == meta = NoMeta /\ k = 0 /\ input = <<>>
CoerceIdle == cin = Undefined /\ cout = Undefined
FormatIdle == result = Undefined /\ fmt = Undefined
ServersIdle == processes = <<>>
RunIdle ==
  /\ lockfile = "absent" /\ alive = FALSE /\ exitCode = 0 /\ printed = <<>> /\ calls = <<>>
  /\ fsops = <<>> /\ invocation = 1 /\ loaded = FALSE

(***************************************************************************)
(* The tokenizer and resolver on their own: parseArgs applied to every     *)
(* argv of at most MaxArgv tokens, one loop iteration per step.            *)
(***************************************************************************)
ParseState == [ph |-> pc, i |-> i, path |-> path, args |-> args, options |-> options]

ParseInit ==
  /\ argv \in SeqsUpTo(ParseTokens, MaxArgv)
  /\ procedures \in ParseProcedures
  /\ pc = ParseStart.ph /\ i = ParseStart.i /\ path = ParseStart.path
  /\ args = ParseStart.args /\ options = ParseStart.options
  /\ BindIdle /\ CoerceIdle /\ RunIdle /\ FormatIdle /\ ServersIdle

ParseAssign(st) ==
  /\ pc' = st.ph /\ i' = st.i /\ path' = st.path
  /\ args' = st.args /\ options' = st.options
  /\ UNCHANGED <<inVars, serverVars, bindVars, coerceVars, runVars>>

ParsePath == pc = "path" /\ ParseAssign(PathStep(ParseState, argv, procedures))

ParseFlags == pc = "flags" /\ ParseAssign(FlagStep(ParseState, argv))

ParseNext == ParsePath \/ ParseFlags

SpecParse == ParseInit /\ [][ParseNext]_vars

(***************************************************************************)
(* Properties of the tokenizer and resolver.                               *)
(***************************************************************************)
IsFlagToken(tok) == Len(tok) >= 1 /\ tok[1] = "-"

FlagFree(av) == \A n \in 1..Len(av) : ~IsFlagToken(av[n])

PathsOf(procs) == {procs[n].path : n \in 1..Len(procs)}

\* the lengths n for which the first n tokens of argv spell a handler path
ExactPrefixes == {n \in 1..Len(argv) : SubSeq(argv, 1, n) \in PathsOf(procedures)}

FirstExact == CHOOSE n \in ExactPrefixes : \A m \in ExactPrefixes : n <= m

Parsed == pc = "parsed"

\* C1: exact-match short-circuit.  Once the tokens read so far spell a
\* handler's path, that token is committed and the path stops growing, even
\* when a deeper handler exists; with handlers ["a"] and ["a","b"], argv
\* `a b x` resolves to path ["a"] with positional tokens ["b","x"].
C1_ExactMatchShortCircuit ==
  (pc \in {"flags", "parsed"} /\ ExactPrefixes # {}) =>
    /\ path = SubSeq(argv, 1, FirstExact)
    /\ \A h \in PathsOf(procedures) : ~(Len(h) < Len(path) /\ SubSeq(path, 1, Len(h)) = h)
    /\ (Parsed /\ argv = <<tA, tB, tX>> /\ PathsOf(procedures) = {<<tA>>, <<tA, tB>>})
         => (path = <<tA>> /\ args = <<tB, tX>>)

C1_Witness ==
  /\ Parsed
  /\ argv = <<tA, tB, tX>>
  /\ PathsOf(procedures) = {<<tA>>, <<tA, tB>>}
  /\ path = <<tA>>
  /\ args = <<tB, tX>>

\* C2: for a flag-free argv whose leading tokens spell a handler path P, no
\* shorter prefix being a handler path, parseArgs returns path = P and the
\* len(argv) - len(P) trailing tokens of argv, in order, as positionals.
C2_ExactPathLeavesTrailingTokens ==
  (Parsed /\ FlagFree(argv) /\ ExactPrefixes # {}) =>
    /\ path = SubSeq(argv, 1, FirstExact)
    /\ Len(args) = Len(argv) - Len(path)
    /\ args = SubSeq(argv, FirstExact + 1, Len(argv))

C2_Witness ==
  /\ Parsed
  /\ FlagFree(argv)
  /\ Len(argv) = 3
  /\ ExactPrefixes # {}
  /\ FirstExact = 2
  /\ Len(path) = 2
  /\ args = <<argv[3]>>

\* the token at i is --name without "="
AtLongFlag ==
  /\ pc = "flags" /\ i <= Len(argv)
  /\ Len(argv[i]) >= 2 /\ argv[i][1] = "-" /\ argv[i][2] = "-"
  /\ \A n \in 1..Len(argv[i]) : argv[i][n] # "="

\* the token after the one at i is a value: it exists, does not start with
\* "-" and is not true, false or a pure-digit string
FollowerIsValue ==
  /\ i + 1 <= Len(argv)
  /\ ~IsFlagToken(argv[i + 1])
  /\ argv[i + 1] \notin {sTrue, sFalse}
  /\ ~(Len(argv[i + 1]) > 0 /\ \A n \in 1..Len(argv[i + 1]) : argv[i + 1][n] \in Digits)

NameOfLong(tok) == SubSeq(tok, 3, Len(tok))

\* C3: long-flag value consumption.  --name without "=" takes the next
\* token as its string value, and consumes it, exactly when that token
\* exists, does not start with "-" and is not true, false or a pure-digit
\* string; otherwise the flag is boolean true and the next token is not
\* consumed, so that a true/false/digit follower is the next token read and
\* is appended to the positional tokens.
C3_LongFlagValueConsumption ==
  [][ /\ AtLongFlag =>
           IF FollowerIsValue
             THEN /\ ObjGet(options', NameOfLong(argv[i])) = Str(argv[i + 1])
                  /\ i' = i + 2 /\ args' = args
             ELSE /\ ObjGet(options', NameOfLong(argv[i])) = Bool(TRUE)
                  /\ i' = i + 1 /\ args' = args
      /\ (pc = "flags" /\ i <= Len(argv) /\ ~IsFlagToken(argv[i])) =>
           (args' = Append(args, argv[i]) /\ i' = i + 1 /\ options' = options)
    ]_vars

C3_Witness ==
  /\ Parsed
  /\ argv = <<tA, tLong, tSeven>>
  /\ ObjGet(options, <<"n">>) = Bool(TRUE)
  /\ args = <<tSeven>>

\* the token at i is -x, exactly two characters
AtShortFlag ==
  /\ pc = "flags" /\ i <= Len(argv)
  /\ Len(argv[i]) = 2 /\ argv[i][1] = "-" /\ argv[i][2] # "-"

\* C4: -x consumes the following token exactly when --name in the same
\* position would, and is boolean true otherwise; its key is the character x.
C4_ShortFlagLikeLongFlag ==
  [][ AtShortFlag =>
        IF FollowerIsValue
          THEN /\ ObjGet(options', <<argv[i][2]>>) = Str(argv[i + 1])
               /\ i' = i + 2
          ELSE /\ ObjGet(options', <<argv[i][2]>>) = Bool(TRUE)
               /\ i' = i + 1
    ]_vars

\* C5: for an argv without any token starting with "-", the options are
\* empty and path ++ args = argv.
C5_FlagFreeTokensKept ==
  (Parsed /\ FlagFree(argv)) => (options = <<>> /\ path \o args = argv)

C5_Witness ==
  /\ Parsed
  /\ FlagFree(argv)
  /\ Len(argv) = 3
  /\ Len(path) = 1
  /\ Len(args) = 2
  /\ ~findProcedureHas(procedures, path)

(***************************************************************************)
(* The binder on its own: parseFromSchema applied to every positional      *)
(* array of at most MaxArray tokens and every options object of at most    *)
(* MaxOptions flags, the positional pass as one step and then one step     *)
(* per flag.                                                               *)
(***************************************************************************)
fSkipGit == <<"s", "k", "i", "p", "G", "i", "t">>
kSkipGit == <<"s", "k", "i", "p", "-", "g", "i", "t">>
fPath == <<"p", "a", "t", "h">>
fRecursive == <<"r", "e", "c", "u", "r", "s", "i", "v", "e">>
tDot == <<".">>
tFortyTwo == <<"4", "2">>
tV == <<"v">>

BindMetas ==
  { [args |-> <<>>, shorts |-> <<[k |-> fSkipGit, v |-> <<"g">>]>>, output |-> "none"],
    [args |-> <<fPath>>, shorts |-> <<[k |-> fRecursive, v |-> <<"r">>]>>, output |-> "none"],
    [args |-> <<fSkipGit, fPath>>, shorts |-> <<>>, output |-> "none"],
    [args |-> <<fPath>>, shorts |-> <<[k |-> fPath, v |-> <<"r">>]>>, output |-> "none"] }

BindKeys == {kSkipGit, fSkipGit, <<"g">>, fPath, <<"r">>}

BindValues == {Bool(TRUE), Str(tV), Str(tFortyTwo)}

BindTokens == {tDot, tFortyTwo}

\* the objects parseArgs can build: distinct keys, in insertion order
BindOptionObjects ==
  {o \in SeqsUpTo([k : BindKeys, v : BindValues], MaxOptions) :
     \A a, b \in 1..Len(o) : a # b => o[a].k # o[b].k}

BindInit ==
  /\ args \in SeqsUpTo(BindTokens, MaxArray)
  /\ options \in BindOptionObjects
  /\ meta \in BindMetas
  /\ pc = "bindPositionals" /\ k = 1 /\ input = <<>>
  /\ argv = <<>> /\ procedures = <<>> /\ i = 1 /\ path = <<>>
  /\ CoerceIdle /\ RunIdle /\ FormatIdle /\ ServersIdle

BindPositionalArgs ==
  /\ pc = "bindPositionals"
  /\ input' = BindPositionals(<<>>, meta.args, args, 1)
  /\ pc' = "bindOptions"
  /\ UNCHANGED <<inVars, serverVars, parseVars, meta, k, coerceVars, runVars>>

BindNextOption ==
  /\ pc = "bindOptions"
  /\ k <= Len(ObjectEntries(options))
  /\ input' = BindOption(input, ObjectEntries(options)[k], meta.args,
                         ShortToField(ObjectEntries(meta.shorts), <<>>))
  /\ k' = k + 1
  /\ UNCHANGED <<pc, inVars, serverVars, parseVars, meta, coerceVars, runVars>>

BindReturn ==
  /\ pc = "bindOptions"
  /\ k > Len(ObjectEntries(options))
  /\ pc' = "bound"
  /\ UNCHANGED <<inVars, serverVars, parseVars, bindVars, coerceVars, runVars>>

BindNext == BindPositionalArgs \/ BindNextOption \/ BindReturn

SpecBind == BindInit /\ [][BindNext]_vars

(***************************************************************************)
(* Properties of the binder.                                               *)
(***************************************************************************)
BoundCount == Min(Len(meta.args), Len(args))

\* C6: the i-th positional token, when present, is bound to the i-th name
\* of meta.args, in declared order; the tokens at indices >= len(meta.args)
\* appear under no key, and the call still returns.
C6_PositionalBinding ==
  ((pc = "bindOptions" /\ k = 1) \/ (pc = "bound" /\ options = <<>>)) =>
    /\ Len(input) = BoundCount
    /\ \A n \in 1..BoundCount :
         input[n] = [k |-> meta.args[n], v |-> coerceValue(Str(args[n]))]

C6_Witness ==
  /\ pc = "bound"
  /\ options = <<>>
  /\ meta.args = <<fPath>>
  /\ args = <<tDot, tFortyTwo>>
  /\ input = <<[k |-> fPath, v |-> Str(tDot)]>>

CurrentOption == ObjectEntries(options)[k]

AtOption == pc = "bindOptions" /\ k <= Len(ObjectEntries(options))

\* the key of the current flag names a positional field bound from a token
KeyBoundFromToken ==
  \E n \in 1..BoundCount : meta.args[n] = CurrentOption.k

\* the field a flag key stands for: the field a short alias is declared
\* for, else the camelCase form of a key with a hyphen, else the key
DeclaredField(key) ==
  IF \E n \in 1..Len(meta.shorts) : meta.shorts[n].v = key
    THEN meta.shorts[CHOOSE n \in 1..Len(meta.shorts) : meta.shorts[n].v = key].k
  ELSE IF \E n \in 1..Len(key) : key[n] = "-" THEN kebabToCamel(key)
  ELSE key

\* C7: every flag that is not skipped for naming a positional field bound
\* from a token is bound, coerced, under the field its key resolves to
\* (short alias, else kebab-case to camelCase, else verbatim), overwriting
\* an earlier binding of that field.
C7_FlagNameResolution ==
  [][ (AtOption /\ ~KeyBoundFromToken) =>
        /\ ObjGet(input', DeclaredField(CurrentOption.k)) = coerceValue(CurrentOption.v)
        /\ \A f \in ObjKeys(input) \ {DeclaredField(CurrentOption.k)} :
             ObjGet(input', f) = ObjGet(input, f)
    ]_vars

\* the flags of options, other than key, that are bound under field f
OtherKeysOf(f, key) == {o \in ObjKeys(options) \ {key} : DeclaredField(o) = f}

\* C8: a flag whose key is the name of a positional field bound from a
\* positional token is skipped: the step leaves the input as it is, and
\* when no other flag resolves to that field the result holds the value
\* bound from the positional token.
C8_BoundPositionalNotOverwritten ==
  /\ [][(AtOption /\ KeyBoundFromToken) => input' = input]_vars
  /\ [](pc = "bound" =>
          \A n \in 1..BoundCount :
            (meta.args[n] \in ObjKeys(options) /\ OtherKeysOf(meta.args[n], meta.args[n]) = {})
              => ObjGet(input, meta.args[n]) = coerceValue(Str(args[n])))

C8_Witness ==
  /\ pc = "bound"
  /\ meta.args = <<fPath>>
  /\ args = <<tDot>>
  /\ options = <<[k |-> fPath, v |-> Str(tV)]>>
  /\ ObjGet(input, fPath) = Str(tDot)

(***************************************************************************)
(* coerceValue on its own, applied to every string of at most MaxCoerceLen *)
(* characters of CoerceAlphabet, to the strings of CoerceWords and to the  *)
(* values that are not strings.                                            *)
(***************************************************************************)
CoerceAlphabet == {"0", "1", "-", ".", "e", "x", " ", "{", "}", "[", "]", "\""}

CoerceWords ==
  { sTrue, sFalse, sInfinity, <<"-">> \o sInfinity, tFortyTwo,
    <<" ", "7", " ">>, <<"0", "x", "1", "f">>,
    <<"a", "b", "c">>,
    <<"{", "\"", "a", "\"", ":", "1", "}">>,
    <<"[", "1", ",", "2", "]">>,
    <<"[", "t", "r", "u", "e", ",", "n", "u", "l", "l", "]">>,
    <<"{", "a", "}">>,
    <<"n", "o", "t", "-", "j", "s", "o", "n", "-", "b", "u", "t", "-",
      "b", "r", "a", "c", "e", "{">> }

CoerceInputs ==
  {Str(w) : w \in CoerceWords \cup SeqsUpTo(CoerceAlphabet, MaxCoerceLen)}
    \cup {Bool(TRUE), Bool(FALSE), Num(42), Num(0), NaN, Undefined, Null}

CoerceInit ==
  /\ cin \in CoerceInputs
  /\ cout = Undefined
  /\ pc = "coerce"
  /\ argv = <<>> /\ procedures = <<>> /\ i = 1 /\ path = <<>>
  /\ args = <<>> /\ options = <<>>
  /\ BindIdle /\ RunIdle /\ FormatIdle /\ ServersIdle

Coerce ==
  /\ pc = "coerce"
  /\ cout' = coerceValue(cin)
  /\ pc' = "coerced"
  /\ UNCHANGED <<inVars, serverVars, parseVars, bindVars, cin, runVars>>

CoerceNext == Coerce

SpecCoerce == CoerceInit /\ [][CoerceNext]_vars

\* a string that parses fully as a finite number
ParsesAsFiniteNumber(s) == trim(s) # <<>> /\ Number(s).kind = "finite"

\* a string delimited by matching {} or [] that parses as JSON
ParsesAsJSON(s) ==
  /\ Len(s) >= 1
  /\ \/ s[1] = "{" /\ s[Len(s)] = "}"
     \/ s[1] = "[" /\ s[Len(s)] = "]"
  /\ JSONparse(s).ok

\* C9: coerceValue returns true/false for the strings "true"/"false", the
\* number for a string that parses fully as a finite number, the parsed
\* value for a {}- or []-delimited string that parses as JSON, the same
\* string for every other string, and every non-string value unchanged.
C9_CoercionAsSpecified ==
  pc = "coerced" =>
    cout = IF cin.t # "string" THEN cin
           ELSE IF cin.s = sTrue THEN Bool(TRUE)
           ELSE IF cin.s = sFalse THEN Bool(FALSE)
           ELSE IF ParsesAsFiniteNumber(cin.s) THEN Number(cin.s)
           ELSE IF ParsesAsJSON(cin.s) THEN JSONparse(cin.s).v
           ELSE cin

(***************************************************************************)
(* run: one invocation of the CLI.  The lockfile and the liveness of the   *)
(* recorded pid are the environment; the outcome of schema validation, of  *)
(* the remote call and of the local handler are chosen by the             *)
(* environment when the step is taken.                                     *)
(***************************************************************************)
tFormat == <<"-", "-", "f", "o", "r", "m", "a", "t">>
tLocal == <<"-", "-", "l", "o", "c", "a", "l">>
tHelp == <<"-", "-", "h", "e", "l", "p">>
tH == <<"-", "h">>
tVersion == <<"-", "-", "v", "e", "r", "s", "i", "o", "n">>
tV1 == <<"-", "v">>
tServer == <<"-", "-", "s", "e", "r", "v", "e", "r">>
tJson == <<"-", "-", "j", "s", "o", "n">>
tF == <<"-", "f">>
fForce == <<"f", "o", "r", "c", "e">>
tProcRef == <<"{", "\"", "$", "p", "r", "o", "c", "\"", ":", "1", "}">>
tBadJson == <<"{">>

sFormat == <<"f", "o", "r", "m", "a", "t">>
sHelp == <<"h", "e", "l", "p">>
sJson == <<"j", "s", "o", "n">>
sText == <<"t", "e", "x", "t">>
sTable == <<"t", "a", "b", "l", "e">>
sStreaming == <<"s", "t", "r", "e", "a", "m", "i", "n", "g">>
sProcKey == <<"$", "p", "r", "o", "c">>

validFormats == <<sText, sJson, sTable, sStreaming>>

RunTokens ==
  {tA, tB, tX, tFormat, sJson, tLocal, tHelp, tH, tVersion, tV1, tF, tServer,
   tJson, tProcRef, tBadJson}

RunRegistry ==
  << [path |-> <<tA>>,
      metadata |-> [args |-> <<fPath>>,
                    shorts |-> <<[k |-> fSkipGit, v |-> <<"g">>]>>,
                    output |-> "none"],
      schema |-> TRUE],
     [path |-> <<tB, tA>>,
      metadata |-> [args |-> <<>>, shorts |-> <<>>, output |-> "json",
                    description |-> "the command b a"],
      schema |-> FALSE],
     [path |-> <<tA, tB>>, metadata |-> NoMeta, schema |-> FALSE],
     [path |-> <<tB, tB>>,
      metadata |-> [args |-> <<>>,
                    shorts |-> <<[k |-> fForce, v |-> <<"f">>]>>,
                    output |-> "none"],
      schema |-> FALSE],
     [path |-> <<tB, tX, tA>>, metadata |-> NoMeta, schema |-> FALSE] >>

\* a value in a condition: undefined, false and "" are falsy
Truthy(v) ==
  IF v.t = "undefined" THEN FALSE
  ELSE IF v.t = "boolean" THEN v.b
  ELSE IF v.t = "string" THEN Len(v.s) > 0
  ELSE TRUE

Info(what) == [to |-> "info", what |-> what, format |-> Undefined]
Error(what) == [to |-> "error", what |-> what, format |-> Undefined]

\* formatOverride ?? meta.output ?? "text"
FormatOr(formatOverride, m) ==
  IF formatOverride # Undefined THEN formatOverride
  ELSE IF m.output # "none" THEN Str(
         IF m.output = "json" THEN sJson
         ELSE IF m.output = "table" THEN sTable
         ELSE IF m.output = "streaming" THEN sStreaming ELSE sText)
  ELSE Str(sText)

OutputFormat(opts, m) == FormatOr(ObjGet(opts, sFormat), m)

\* formatOutput(print, result, format)
Result(format) == [to |-> "info", what |-> "result", format |-> format]

MetaOf(procs, p) == findProcedure(procs, p).metadata

sOther == <<"o", "t", "h", "e", "r">>

\* the heading a procedure is listed under, taken from the end of its path
GroupOfLastSegment(proc) ==
  IF Len(proc.path) > 0 THEN proc.path[Len(proc.path)] ELSE sOther

\* proc.path[0] ?? "other"
GroupOf(proc) == IF Len(proc.path) > 0 THEN proc.path[1] ELSE sOther

\* groups.get(group).push(proc), the group being created at its first procedure
AddToGroup(groups, group, proc) ==
  IF \E n \in 1..Len(groups) : groups[n].group = group
    THEN [n \in 1..Len(groups) |->
            IF groups[n].group = group
              THEN [groups[n] EXCEPT !.commands = Append(@, proc.path)]
              ELSE groups[n]]
    ELSE Append(groups, [group |-> group, commands |-> <<proc.path>>])

\* the Map built by showRootHelp, in insertion order
RECURSIVE GroupByFirstSegment(_, _)
GroupByFirstSegment(procs, groups) ==
  IF Len(procs) = 0 THEN groups
  ELSE GroupByFirstSegment(Tail(procs), AddToGroup(groups, GroupOf(procs[1]), procs[1]))

\* showRootHelp(procedures): the listing it prints
RootHelp(procs) ==
  [to |-> "info", what |-> "rootHelp", format |-> Undefined,
   groups |-> GroupByFirstSegment(procs, <<>>)]

\* meta.description ?? ""
Description(proc) ==
  IF "description" \in DOMAIN proc.metadata THEN proc.metadata.description ELSE ""

\* every procedure below p, listed as if it were a direct child
DirectChildrenAnyDepth(procs, p) ==
  LET direct == findChildren(procs, p)
  IN [n \in 1..Len(direct) |->
        [name |-> direct[n].path[Len(direct[n].path)], desc |-> Description(direct[n])]]

\* showHelp: the children one level below p, each with its last segment and
\* its description
DirectChildren(procs, p) ==
  LET direct == SelectSeq(findChildren(procs, p), LAMBDA c : Len(c.path) = Len(p) + 1)
  IN [n \in 1..Len(direct) |->
        [name |-> direct[n].path[Len(direct[n].path)], desc |-> Description(direct[n])]]

\* showHelp: the Set of the segments that follow p in the deeper children, in
\* insertion order
RECURSIVE ChildGroups(_, _, _)
ChildGroups(children, p, groups) ==
  IF Len(children) = 0 THEN groups
  ELSE LET child == children[1]
           deeper == Len(child.path) > Len(p) + 1
           groupSeg == child.path[Len(p) + 1]
       IN ChildGroups(Tail(children), p,
                      IF deeper /\ Len(groupSeg) > 0 /\ ~includes(groups, groupSeg)
                        THEN Append(groups, groupSeg) ELSE groups)

\* showHelp(procedures, path) for a path that has children and is no handler
GroupHelp(procs, p) ==
  [to |-> "info", what |-> "groupHelp", format |-> Undefined,
   children |-> DirectChildren(procs, p),
   groups |-> ChildGroups(findChildren(procs, p), p, <<>>)]

\* the version is printed for --version only
WantsVersionLongOnly(av) == includes(av, tVersion)

\* argv.includes("--version") || argv.includes("-v")
WantsVersion(av) == includes(av, tVersion) \/ includes(av, tV1)

\* one execution of a handler: by the server ("remote"), by client.call in this
\* process ("local") or by client.exec ("exec"), with how the handler ended
Call(via, p, inp, outcome) ==
  [via |-> via, path |-> p, input |-> inp, outcome |-> outcome, run |-> invocation]

RunInit ==
  /\ argv \in SeqsUpTo(RunTokens, MaxRunArgv)
  /\ procedures = RunRegistry
  /\ lockfile \in {"absent", "present"}
  /\ alive \in (IF lockfile = "present" THEN BOOLEAN ELSE {FALSE})
  /\ pc = "run"
  /\ exitCode = 0 /\ printed = <<>> /\ calls = <<>>
  /\ fsops = <<>> /\ invocation = 1 /\ loaded = FALSE
  /\ i = 1 /\ path = <<>> /\ args = <<>> /\ options = <<>>
  /\ BindIdle /\ CoerceIdle /\ FormatIdle /\ ServersIdle

\* the condition of client mode with the --local test left out
TriesClientModeDespiteLocal(av, r) ==
  /\ Len(r.path) > 0
  /\ ~Truthy(ObjGet(r.options, sHelp))
  /\ ~Truthy(ObjGet(r.options, <<"h">>))

\* !argv.includes("--local") && path.length > 0 && !options.help && !options.h
TriesClientMode(av, r) ==
  /\ ~includes(av, tLocal)
  /\ Len(r.path) > 0
  /\ ~Truthy(ObjGet(r.options, sHelp))
  /\ ~Truthy(ObjGet(r.options, <<"h">>))

\* run, up to the call of tryClientMode
RunEnter ==
  /\ pc = "run"
  /\ IF WantsVersion(argv)
       THEN /\ printed' = Append(printed, Info("version"))
            /\ pc' = "done"
            /\ UNCHANGED <<parseVars, loaded>>
     ELSE IF includes(argv, tServer)
       THEN /\ pc' = "server"
            /\ UNCHANGED <<printed, parseVars, loaded>>
     ELSE LET r == parseArgs(argv, procedures)
          IN /\ loaded' = TRUE
             /\ i' = r.i /\ path' = r.path /\ args' = r.args /\ options' = r.options
             /\ pc' = IF TriesClientMode(argv, r) THEN "readLockfile" ELSE "local"
             /\ UNCHANGED printed
  /\ UNCHANGED <<inVars, serverVars, bindVars, coerceVars, lockfile, exitCode, calls>>
  /\ UNCHANGED <<alive, fsops, invocation>>

\* tryClientMode: readLockfile
ReadLockfile ==
  /\ pc = "readLockfile"
  /\ fsops' = Append(fsops, "readFile")
  /\ pc' = IF lockfile = "absent" THEN "local" ELSE "probe"
  /\ UNCHANGED <<inVars, serverVars, parseVars, bindVars, coerceVars>>
  /\ UNCHANGED <<lockfile, alive, invocation, loaded, exitCode, printed, calls>>

\* isServerAlive without the removal of the lockfile of a dead pid
ProbeServerKeepsLockfile ==
  /\ pc = "probe"
  /\ pc' = IF alive THEN "remote" ELSE "local"
  /\ fsops' = Append(fsops, "kill0")
  /\ UNCHANGED <<inVars, serverVars, parseVars, bindVars, coerceVars>>
  /\ UNCHANGED <<lockfile, alive, invocation, loaded, exitCode, printed, calls>>

\* tryClientMode: isServerAlive, which removes the lockfile of a dead pid
ProbeServer ==
  /\ pc = "probe"
  /\ IF alive
       THEN /\ pc' = "remote"
            /\ fsops' = Append(fsops, "kill0")
            /\ UNCHANGED lockfile
       ELSE /\ pc' = "local"
            /\ fsops' = fsops \o <<"kill0", "unlink">>
            /\ lockfile' = "absent"
  /\ UNCHANGED <<inVars, serverVars, parseVars, bindVars, coerceVars>>
  /\ UNCHANGED <<alive, invocation, loaded, exitCode, printed, calls>>

\* tryClientMode: the path names no procedure, null is returned
RemoteUnknownProcedure ==
  /\ pc = "remote"
  /\ ~findProcedureHas(procedures, path)
  /\ pc' = "local"
  /\ UNCHANGED <<inVars, serverVars, parseVars, bindVars, coerceVars, runVars>>

\* tryClientMode taking --format out of the options before it returns null
RemoteValidationFailsDropsFormat ==
  /\ pc = "remote"
  /\ findProcedureHas(procedures, path)
  /\ findProcedure(procedures, path).schema
  /\ options' = ObjDelete(options, sFormat)
  /\ pc' = "local"
  /\ UNCHANGED <<inVars, serverVars, i, path, args, bindVars, coerceVars, runVars>>

\* tryClientMode: proc.input.parse(input) throws, null is returned
RemoteValidationFails ==
  /\ pc = "remote"
  /\ findProcedureHas(procedures, path)
  /\ findProcedure(procedures, path).schema
  /\ pc' = "local"
  /\ UNCHANGED <<inVars, serverVars, parseVars, bindVars, coerceVars, runVars>>

\* tryClientMode: client.call returns; run formats the result and returns
RemoteCallReturns ==
  /\ pc = "remote"
  /\ findProcedureHas(procedures, path)
  /\ calls' = Append(calls, Call("remote", path,
                                  parseFromSchema(args, options, MetaOf(procedures, path)),
                                  "returned"))
  /\ printed' = Append(printed, Result(OutputFormat(options, MetaOf(procedures, path))))
  /\ pc' = "done"
  /\ UNCHANGED <<inVars, serverVars, parseVars, bindVars, coerceVars, lockfile, hostVars, exitCode>>

\* the failure of client.call reported to the user, ending the run
RemoteCallFailsSurfaced ==
  /\ pc = "remote"
  /\ findProcedureHas(procedures, path)
  /\ printed' = Append(printed, Error("Error"))
  /\ exitCode' = 1
  /\ pc' = "done"
  /\ UNCHANGED <<inVars, serverVars, parseVars, bindVars, coerceVars, lockfile, hostVars, calls>>

\* tryClientMode: client.call throws and null is returned.  The server was
\* not reached, or it ran the handler, which threw or whose result was lost.
RemoteCallFails ==
  /\ pc = "remote"
  /\ findProcedureHas(procedures, path)
  /\ \E outcome \in {"unreached", "returned", "threw"} :
       calls' = IF outcome = "unreached" THEN calls
                ELSE Append(calls, Call("remote", path,
                                        parseFromSchema(args, options,
                                                        MetaOf(procedures, path)),
                                        outcome))
  /\ pc' = "local"
  /\ UNCHANGED <<inVars, serverVars, parseVars, bindVars, coerceVars, lockfile, hostVars, exitCode, printed>>

Finish(code, lines) ==
  /\ pc' = "done"
  /\ exitCode' = code
  /\ printed' = printed \o lines
  /\ UNCHANGED <<parseVars, bindVars>>

\* typeof parsed === "object" && "$proc" in parsed
IsProcRef(v) == v.t = "object" /\ ObjHas(v.o, sProcKey)

\* run, from the --json flag to the parsing of the input
LocalRun ==
  /\ pc = "local"
  /\ LET jsonInput == ObjGet(options, sJson)
         hasJson == jsonInput.t = "string" /\ Truthy(jsonInput)
         parsed == JSONparse(jsonInput.s)
         formatOverride == ObjGet(options, sFormat)
         cleaned == ObjDelete(ObjDelete(options, sFormat), <<"f">>)
     IN IF hasJson /\ ~parsed.ok
          THEN Finish(1, <<Error("Failed to parse --json input")>>)
        ELSE IF hasJson /\ IsProcRef(parsed.v)
          THEN pc' = "exec" /\ UNCHANGED <<parseVars, bindVars, exitCode, printed>>
        ELSE IF Len(path) = 0
          THEN Finish(exitCode, <<RootHelp(procedures)>>)
        ELSE IF Truthy(ObjGet(options, sHelp)) \/ Truthy(ObjGet(options, <<"h">>))
          THEN IF findProcedureHas(procedures, path)
                 THEN Finish(exitCode, <<Info("commandHelp")>>)
               ELSE IF Len(findChildren(procedures, path)) > 0
                 THEN Finish(exitCode, <<GroupHelp(procedures, path)>>)
               ELSE Finish(exitCode, <<Error("Unknown command"), Info("hint")>>)
        ELSE IF ~findProcedureHas(procedures, path)
          THEN IF Len(findChildren(procedures, path)) > 0
                 THEN Finish(exitCode, <<GroupHelp(procedures, path)>>)
                 ELSE Finish(exitCode, <<Error("Unknown command"), Info("hint")>>)
        ELSE IF Truthy(formatOverride)
                  /\ ~(formatOverride.t = "string" /\ includes(validFormats, formatOverride.s))
          THEN Finish(1, <<Error("Invalid format")>>)
        ELSE /\ options' = cleaned
             /\ meta' = MetaOf(procedures, path)
             /\ input' = parseFromSchema(args, cleaned, MetaOf(procedures, path))
             /\ pc' = "invoke"
             /\ UNCHANGED <<i, path, args, k, exitCode, printed>>
  /\ UNCHANGED <<inVars, serverVars, coerceVars, lockfile, hostVars, calls>>

\* client.exec(parsed) returns: the result is printed as json
ExecReturns ==
  /\ pc = "exec"
  /\ calls' = Append(calls, Call("exec", <<>>, <<>>, "returned"))
  /\ printed' = Append(printed, Result(Str(sJson)))
  /\ pc' = "done"
  /\ UNCHANGED <<inVars, serverVars, parseVars, bindVars, coerceVars, lockfile, hostVars, exitCode>>

\* client.exec(parsed) throws: reported by the catch around JSON.parse
ExecThrows ==
  /\ pc = "exec"
  /\ calls' = Append(calls, Call("exec", <<>>, <<>>, "threw"))
  /\ printed' = Append(printed, Error("Failed to parse --json input"))
  /\ exitCode' = 1
  /\ pc' = "done"
  /\ UNCHANGED <<inVars, serverVars, parseVars, bindVars, coerceVars, lockfile, hostVars>>

\* proc.input.parse(input) throws
LocalValidationFails ==
  /\ pc = "invoke"
  /\ findProcedure(procedures, path).schema
  /\ printed' = Append(printed, Error("Error"))
  /\ exitCode' = 1
  /\ pc' = "done"
  /\ UNCHANGED <<inVars, serverVars, parseVars, bindVars, coerceVars, lockfile, hostVars, calls>>

\* client.call(method, validated) returns: the result is printed
LocalCallReturns ==
  /\ pc = "invoke"
  /\ calls' = Append(calls, Call("local", path, input, "returned"))
  /\ printed' = Append(printed, Result(OutputFormat(parseArgs(argv, procedures).options, meta)))
  /\ pc' = "done"
  /\ UNCHANGED <<inVars, serverVars, parseVars, bindVars, coerceVars, lockfile, hostVars, exitCode>>

\* the catch of run reporting the error without setting the exit code
LocalCallThrowsExitsZero ==
  /\ pc = "invoke"
  /\ calls' = Append(calls, Call("local", path, input, "threw"))
  /\ printed' = Append(printed, Error("Error"))
  /\ pc' = "done"
  /\ UNCHANGED <<inVars, serverVars, parseVars, bindVars, coerceVars, lockfile, hostVars,
                 exitCode>>

\* the handler throws
LocalCallThrows ==
  /\ pc = "invoke"
  /\ calls' = Append(calls, Call("local", path, input, "threw"))
  /\ printed' = Append(printed, Error("Error"))
  /\ exitCode' = 1
  /\ pc' = "done"
  /\ UNCHANGED <<inVars, serverVars, parseVars, bindVars, coerceVars, lockfile, hostVars>>

\* the same command line is run again, in a new process
NextInvocation ==
  /\ pc = "done"
  /\ invocation < MaxRuns
  /\ invocation' = invocation + 1
  /\ pc' = "run"
  /\ exitCode' = 0 /\ printed' = <<>>
  /\ i' = 1 /\ path' = <<>> /\ args' = <<>> /\ options' = <<>>
  /\ meta' = NoMeta /\ k' = 0 /\ input' = <<>>
  /\ loaded' = FALSE
  /\ UNCHANGED <<inVars, serverVars, coerceVars, lockfile, alive, fsops, calls>>

Next ==
  \/ RunEnter
  \/ ReadLockfile \/ ProbeServer
  \/ RemoteUnknownProcedure \/ RemoteValidationFails
  \/ RemoteCallReturns \/ RemoteCallFails
  \/ LocalRun
  \/ ExecReturns \/ ExecThrows
  \/ LocalValidationFails \/ LocalCallReturns \/ LocalCallThrows
  \/ NextInvocation

Spec == RunInit /\ [][Next]_vars

(***************************************************************************)
(* The --format flag                                                       *)
(***************************************************************************)
\* argv asks for none of version, server mode, help or --json
PlainInvocation ==
  /\ ~includes(argv, tVersion) /\ ~includes(argv, tV1)
  /\ ~includes(argv, tServer)
  /\ ~includes(argv, tHelp) /\ ~includes(argv, tH)
  /\ ~includes(argv, tJson)

\* argv resolves to a registered handler and carries --format <v> with v a
\* non-empty string outside text, json, table, streaming
InvalidFormatOnHandler ==
  LET r == parseArgs(argv, procedures)
      v == ObjGet(r.options, sFormat)
  IN /\ PlainInvocation
     /\ findProcedureHas(procedures, r.path)
     /\ v.t = "string" /\ Len(v.s) > 0
     /\ ~includes(validFormats, v.s)

\* C10: for every argv that resolves to an existing handler and carries
\* --format <v> with v not one of text, json, table, streaming, the handler is
\* never invoked, neither locally nor on a running server, and the run ends
\* with the invalid-format error and exit code 1.
C10_InvalidFormatNeverInvokes ==
  InvalidFormatOnHandler =>
    /\ calls = <<>>
    /\ pc = "done" => /\ exitCode = 1
                      /\ printed = <<Error("Invalid format")>>

(***************************************************************************)
(* Dispatch of one invocation                                              *)
(***************************************************************************)
\* the handler executions caused by the run under way
CallsOfRun == SelectSeq(calls, LAMBDA c : c.run = invocation)

\* the path resolved from argv
ResolvedPath == parseArgs(argv, procedures).path

\* argv asks for neither the version, server mode nor --json
CommandInvocation ==
  /\ ~includes(argv, tVersion) /\ ~includes(argv, tV1)
  /\ ~includes(argv, tServer)
  /\ ~includes(argv, tJson)

\* the resolved path is neither a handler nor a group
UnknownCommand ==
  /\ CommandInvocation
  /\ ~includes(argv, tHelp) /\ ~includes(argv, tH)
  /\ Len(ResolvedPath) > 0
  /\ ~findProcedureHas(procedures, ResolvedPath)
  /\ Len(findChildren(procedures, ResolvedPath)) = 0

\* C11: when the resolved path matches neither an exact handler nor any
\* group, the run reports the unknown command with the hint to view the
\* top-level help, executes no handler, and ends with exit code 1.
C11_UnknownCommandExitsOne ==
  (UnknownCommand /\ pc = "done") =>
    /\ printed = <<Error("Unknown command"), Info("hint")>>
    /\ CallsOfRun = <<>>
    /\ exitCode = 1

\* the handler executions made by the server on behalf of a run
RemoteCalls == SelectSeq(calls, LAMBDA c : c.via = "remote")

\* C12: when argv contains --local, the invocation never reads the lockfile,
\* never probes the recorded pid, never deletes the lockfile and never issues
\* a remote call, whatever the lockfile state is.
C12_LocalFlagSkipsDiscovery ==
  /\ []((includes(argv, tLocal) /\ ~includes(argv, tServer)) =>
          /\ fsops = <<>>
          /\ pc \notin {"readLockfile", "probe", "remote"}
          /\ RemoteCalls = <<>>)
  /\ [][(includes(argv, tLocal) /\ ~includes(argv, tServer)) => lockfile' = lockfile]_vars

\* --local with a live server: the handler has been executed locally
C12_Witness ==
  /\ includes(argv, tLocal)
  /\ lockfile = "present" /\ alive
  /\ pc = "done"
  /\ Len(calls) = 1 /\ calls[1].via = "local"

\* the --format value of argv, when there is one, is one of the four formats
FormatAccepted ==
  LET v == ObjGet(parseArgs(argv, procedures).options, sFormat)
  IN ~Truthy(v) \/ (v.t = "string" /\ includes(validFormats, v.s))

\* argv names a registered handler and asks for nothing but its execution
HandlerInvocation ==
  /\ CommandInvocation
  /\ ~includes(argv, tHelp) /\ ~includes(argv, tH)
  /\ findProcedureHas(procedures, ResolvedPath)
  /\ FormatAccepted

\* the run has executed the handler of the resolved path once, in this
\* process, or the schema has rejected the input before the call
ExecutedLocally ==
  \/ /\ Len(CallsOfRun) = 1
     /\ CallsOfRun[1].via = "local"
     /\ CallsOfRun[1].path = ResolvedPath
  \/ /\ CallsOfRun = <<>>
     /\ findProcedure(procedures, ResolvedPath).schema
     /\ printed = <<Error("Error")>>

\* the first invocation found a lockfile whose pid does not exist
FoundStale ==
  Len(fsops) >= 3 /\ SubSeq(fsops, 1, 3) = <<"readFile", "kill0", "unlink">>

\* C13: if the lockfile names a pid that does not exist, the next invocation
\* deletes the lockfile and executes the command locally; a second invocation
\* finds no lockfile and also executes locally without error; neither
\* invocation makes a remote call.
C13_StaleLockfileSelfHealing ==
  /\ [][(pc = "probe" /\ ~alive) => (lockfile' = "absent" /\ pc' = "local")]_vars
  /\ [](FoundStale =>
          /\ lockfile = "absent"
          /\ RemoteCalls = <<>>
          /\ pc \notin {"probe", "remote"}
          /\ \A n \in 4..Len(fsops) : fsops[n] = "readFile"
          /\ Len(fsops) \in {invocation + 1, invocation + 2}
          /\ (pc \notin {"run", "readLockfile"} => Len(fsops) = invocation + 2)
          /\ (HandlerInvocation /\ pc = "done" => ExecutedLocally))

\* both invocations are over: the first removed the stale lockfile, the second
\* only looked for it, and each executed the handler locally
C13_Witness ==
  /\ FoundStale
  /\ invocation = 2 /\ pc = "done"
  /\ fsops = <<"readFile", "kill0", "unlink", "readFile">>
  /\ Len(calls) = 2
  /\ calls[1].via = "local" /\ calls[1].run = 1
  /\ calls[2].via = "local" /\ calls[2].run = 2
  /\ exitCode = 0

\* the step is the return of a successful remote call, printed by run
RemoteSuccessStep ==
  /\ pc' = "done"
  /\ Len(calls') = Len(calls) + 1
  /\ calls'[Len(calls')].via = "remote" /\ calls'[Len(calls')].outcome = "returned"
  /\ printed' = Append(printed, Result(OutputFormat(options, MetaOf(procedures, path))))
  /\ exitCode' = exitCode

\* the step hands the same command over to local execution, showing nothing
FallbackStep ==
  /\ pc' = "local"
  /\ UNCHANGED <<printed, exitCode, path, args, options, argv>>

\* local execution of a handler path starts: the input is bound from the same
\* tokens and flags, or the run ends on the --format value it refuses
LocalStartStep ==
  \/ /\ pc' = "invoke"
     /\ path' = path
     /\ input' = parseFromSchema(args, ObjDelete(ObjDelete(options, sFormat), <<"f">>),
                                 MetaOf(procedures, path))
  \/ /\ pc' = "done"
     /\ printed' = Append(printed, Error("Invalid format"))
     /\ CallsOfRun' = CallsOfRun

\* this run found the lockfile and its pid alive
TriedLiveServer ==
  alive /\ Len(fsops) > 0 /\ fsops[Len(fsops)] = "kill0"

\* C14: when a live server is discovered but the remote call fails with a
\* transport failure, the failure is never shown to the user and the
\* invocation falls back to local execution of the same command.
C14_TransportFailureFallsBack ==
  /\ [][pc = "remote" => (RemoteSuccessStep \/ FallbackStep)]_vars
  /\ [][(pc = "local" /\ TriedLiveServer /\ findProcedureHas(procedures, path)
           /\ ~includes(argv, tJson))
         => LocalStartStep]_vars
  /\ [](pc = "invoke" => input = parseFromSchema(args, options, MetaOf(procedures, path)))

\* a live server was found, the remote call failed, and the handler of the same
\* path has then been executed locally with its result printed
C14_Witness ==
  /\ lockfile = "present" /\ alive
  /\ fsops = <<"readFile", "kill0">>
  /\ ResolvedPath = <<tB, tA>>
  /\ pc = "done"
  /\ Len(calls) = 1 /\ calls[1].via = "local" /\ calls[1].path = <<tB, tA>>
  /\ printed = <<Result(Str(sJson))>>
  /\ exitCode = 0

\* the server ran the handler for this run and the handler failed
RemoteHandlerFailed ==
  \E n \in 1..Len(CallsOfRun) :
    CallsOfRun[n].via = "remote" /\ CallsOfRun[n].outcome = "threw"

\* C15: a remote call that completes but reports an application-level failure
\* (the remote handler itself fails) is reported to the user as that failure
\* and is not retried by executing the handler locally.
C15_RemoteFailureNotRetried ==
  RemoteHandlerFailed =>
    /\ pc \notin {"local", "invoke", "exec"}
    /\ \A n \in 1..Len(CallsOfRun) : CallsOfRun[n].via = "remote"
    /\ (pc = "done" => \E n \in 1..Len(printed) : printed[n].to = "error")

\* C16: in every single-invocation run, for any argv and any lockfile and
\* server state, the handler is executed at most once in total, counting
\* remote and local executions together.
C16_AtMostOneExecution == Len(CallsOfRun) <= 1

\* argv carries --help or -h, and asks for neither the version nor server mode
HelpInvocation ==
  /\ includes(argv, tHelp) \/ includes(argv, tH)
  /\ ~includes(argv, tVersion) /\ ~includes(argv, tV1)
  /\ ~includes(argv, tServer)

\* C17: when argv carries --help or -h, help is rendered instead of
\* executing: no handler is executed locally, no remote call is made, no
\* procedure reference is executed, and the exit code is 0 when the path is a
\* handler or a group.
C17_HelpNeverExecutes ==
  HelpInvocation =>
    /\ CallsOfRun = <<>>
    /\ pc \notin {"readLockfile", "probe", "remote", "invoke", "exec"}
    /\ (/\ pc = "done"
        /\ Len(ResolvedPath) > 0
        /\ \/ findProcedureHas(procedures, ResolvedPath)
           \/ Len(findChildren(procedures, ResolvedPath)) > 0)
       => exitCode = 0

\* the listing names every procedure once, under its first path segment, with
\* one heading per segment
GroupedByFirstSegment(groups) ==
  /\ \A a, b \in 1..Len(groups) : a # b => groups[a].group # groups[b].group
  /\ \A n \in 1..Len(groups) :
       /\ Len(groups[n].commands) > 0
       /\ \A m \in 1..Len(groups[n].commands) :
            groups[n].commands[m][1] = groups[n].group
  /\ \A q \in 1..Len(procedures) :
       \E n \in 1..Len(groups) :
         Cardinality({m \in 1..Len(groups[n].commands) :
                        groups[n].commands[m] = procedures[q].path}) = 1

JsonInvocation ==
  LET payload == ObjGet(parseArgs(argv, procedures).options, sJson)
  IN /\ payload.t = "string" /\ Len(payload.s) > 0
     /\ ~includes(argv, tVersion) /\ ~includes(argv, tV1)
     /\ ~includes(argv, tServer)

\* C19: an invocation carrying --json <payload> bypasses path resolution
\* entirely: no handler selected by the argv path is ever executed, neither
\* remotely nor locally; either the procedure reference of the payload is
\* executed once and its result printed in json format, or an error is
\* reported with exit code 1.
C19_JsonBypassesPath ==
  JsonInvocation =>
    /\ \A n \in 1..Len(CallsOfRun) : CallsOfRun[n].via = "exec"
    /\ (pc = "done" =>
          \/ /\ Len(CallsOfRun) = 1
             /\ CallsOfRun[1].outcome = "returned"
             /\ printed = <<Result(Str(sJson))>>
          \/ /\ exitCode = 1
             /\ \E n \in 1..Len(printed) : printed[n].to = "error")

(***************************************************************************)
(* formatOutput: the printer of results.  What it prints is the sequence   *)
(* of the calls it makes on print: info, error, success or table, each     *)
(* with its argument.  The text JSON.stringify makes of a value and the    *)
(* grid print.table is given are kept as the value they are made from.     *)
(***************************************************************************)
MaxItems == 2

sOutput == <<"o", "u", "t", "p", "u", "t">>
sMessage == <<"m", "e", "s", "s", "a", "g", "e">>
sSuccess == <<"s", "u", "c", "c", "e", "s", "s">>
sError == <<"e", "r", "r", "o", "r">>
sRows == <<"r", "o", "w", "s">>

Success(what) == [to |-> "success", what |-> what, format |-> Undefined]
Table(data) == [to |-> "table", what |-> data, format |-> Undefined]

\* JSON.stringify(result, null, 2): undefined for undefined
JSONstringify(val) == IF val = Undefined THEN Undefined ELSE [json |-> val]

\* typeof val === "object" && val !== null && field in val
\* && typeof val[field] === "string"
isObjectWith(val, field) ==
  /\ val.t = "object"
  /\ ObjHas(val.o, field)
  /\ isString(ObjGet(val.o, field))

\* "rows" in val && Array.isArray(val.rows)
isTableResult(val) ==
  /\ val.t = "object"
  /\ ObjHas(val.o, sRows)
  /\ ObjGet(val.o, sRows).t = "array"

\* formatText with the message shape tested before the output shape
RECURSIVE formatTextMessageFirst(_)
formatTextMessageFirst(res) ==
  IF isString(res) THEN <<Info(res.s)>>
  ELSE IF isObjectWith(res, sMessage)
    THEN IF ObjGet(res.o, sSuccess) = Bool(FALSE)
           THEN <<Error(ObjGet(res.o, sMessage).s)>>
           ELSE <<Success(ObjGet(res.o, sMessage).s)>>
  ELSE IF isObjectWith(res, sOutput) THEN <<Info(ObjGet(res.o, sOutput).s)>>
  ELSE IF isObjectWith(res, sError) THEN <<Error(ObjGet(res.o, sError).s)>>
  ELSE IF res.t = "array"
    THEN IF res.a = <<>> THEN <<>>
         ELSE formatTextMessageFirst(Arr(SubSeq(res.a, 1, Len(res.a) - 1)))
                \o formatTextMessageFirst(res.a[Len(res.a)])
  ELSE <<Info(JSONstringify(res))>>

\* formatText(print, result): the calls made on print, in order.  The loop
\* over an array prints all items but the last, then the last.
RECURSIVE formatText(_)
formatText(res) ==
  IF isString(res) THEN <<Info(res.s)>>
  ELSE IF isObjectWith(res, sOutput) THEN <<Info(ObjGet(res.o, sOutput).s)>>
  ELSE IF isObjectWith(res, sMessage)
    THEN IF ObjGet(res.o, sSuccess) = Bool(FALSE)
           THEN <<Error(ObjGet(res.o, sMessage).s)>>
           ELSE <<Success(ObjGet(res.o, sMessage).s)>>
  ELSE IF isObjectWith(res, sError) THEN <<Error(ObjGet(res.o, sError).s)>>
  ELSE IF res.t = "array"
    THEN IF res.a = <<>> THEN <<>>
         ELSE formatText(Arr(SubSeq(res.a, 1, Len(res.a) - 1)))
                \o formatText(res.a[Len(res.a)])
  ELSE <<Info(JSONstringify(res))>>

\* typeof result[0] === "object": objects, arrays and null
typeofObject(val) == val.t \in {"object", "array", "null"}

\* formatTable reaches Object.keys(result[0]) with result[0] null
formatTableThrows(res) ==
  /\ ~isTableResult(res)
  /\ res.t = "array" /\ Len(res.a) > 0 /\ res.a[1] = Null

\* formatTable(print, result), when it does not throw
formatTable(res) ==
  IF isTableResult(res) THEN <<Table(res)>>
  ELSE IF res.t = "array" /\ Len(res.a) > 0 /\ typeofObject(res.a[1])
    THEN <<Table(res)>>
  ELSE formatText(res)

\* formatOutput(print, result, format = "text"), when it does not throw
formatOutput(res, format) ==
  IF res = Undefined \/ res = Null THEN <<>>
  ELSE IF format = Str(sJson) THEN <<Info(JSONstringify(res))>>
  ELSE IF format = Str(sTable) THEN formatTable(res)
  ELSE formatText(res)

formatOutputThrows(res, format) ==
  /\ res # Undefined /\ res # Null
  /\ format = Str(sTable)
  /\ formatTableThrows(res)

(***************************************************************************)
(* formatOutput on its own, applied to strings, numbers, booleans, null,   *)
(* undefined, to the objects that have or lack the properties output,      *)
(* message, success, error and rows, and to arrays of at most MaxItems     *)
(* items, under every format hint.                                         *)
(***************************************************************************)
sOk == <<"o", "k">>
sBad == <<"b", "a", "d">>
sOut == <<"o", "u", "t">>
sErr == <<"e", "r", "r">>

Absent == [t |-> "absent"]

Property(key, v) == IF v = Absent THEN <<>> ELSE <<[k |-> key, v |-> v]>>

FormatObjects ==
  { Obj(Property(sOutput, o) \o Property(sMessage, m)
          \o Property(sSuccess, s) \o Property(sError, e)) :
      o \in {Absent, Str(sOut), Num(7)},
      m \in {Absent, Str(sOk), Str(sBad), Num(7)},
      s \in {Absent, Bool(TRUE), Bool(FALSE), Str(sFalse)},
      e \in {Absent, Str(sErr), Num(7)} }

FormatItems ==
  { Str(sOk), Num(7), Null, Undefined, Obj(<<>>),
    Obj(Property(sMessage, Str(sOk)) \o Property(sSuccess, Bool(TRUE))),
    Obj(Property(sMessage, Str(sBad)) \o Property(sSuccess, Bool(FALSE))),
    Obj(Property(sMessage, Str(sOk))),
    Obj(Property(sOutput, Str(sOut)) \o Property(sMessage, Str(sOk))),
    Obj(Property(sMessage, Str(sBad)) \o Property(sError, Str(sErr))),
    Obj(Property(sError, Str(sErr))),
    Arr(<<>>),
    Arr(<<Str(sOut), Obj(Property(sMessage, Str(sBad)))>>) }

FormatResults ==
  {Str(sOk), Str(<<>>), Num(7), Bool(TRUE), Bool(FALSE), Null, Undefined}
    \cup FormatObjects
    \cup {Obj(Property(sRows, r) \o Property(sMessage, m)) :
            r \in {Arr(<<>>), Arr(<<Obj(<<>>)>>), Str(sOk)},
            m \in {Absent, Str(sOk)}}
    \cup {Arr(a) : a \in SeqsUpTo(FormatItems, MaxItems)}

FormatHints ==
  {Undefined, Str(sText), Str(sStreaming), Str(sJson), Str(sTable), Str(<<"x">>)}

FormatInit ==
  /\ result \in FormatResults
  /\ fmt \in FormatHints
  /\ pc = "format"
  /\ argv = <<>> /\ procedures = <<>> /\ i = 1 /\ path = <<>>
  /\ args = <<>> /\ options = <<>>
  /\ BindIdle /\ CoerceIdle /\ RunIdle /\ ServersIdle

FormatOutputReturns ==
  /\ pc = "format"
  /\ ~formatOutputThrows(result, fmt)
  /\ printed' = formatOutput(result, fmt)
  /\ pc' = "formatted"
  /\ UNCHANGED <<inVars, serverVars, parseVars, bindVars, coerceVars, lockfile, hostVars,
                 exitCode, calls>>

FormatOutputThrows ==
  /\ pc = "format"
  /\ formatOutputThrows(result, fmt)
  /\ pc' = "threw"
  /\ UNCHANGED <<inVars, serverVars, parseVars, bindVars, coerceVars, runVars>>

FormatNext == FormatOutputReturns \/ FormatOutputThrows

SpecFormat == FormatInit /\ [][FormatNext]_vars

(***************************************************************************)
(* Text formatting by result shape                                         *)
(***************************************************************************)
\* formatOutput has returned from a call with the text or streaming format
\* and a result that is neither null nor undefined
FormattedAsText ==
  /\ pc = "formatted"
  /\ fmt \in {Str(sText), Str(sStreaming)}
  /\ result # Null /\ result # Undefined

\* val is an object (not an array) with a property key holding a string
HasString(val, key) ==
  /\ val.t = "object"
  /\ \E n \in 1..Len(val.o) : val.o[n].k = key /\ val.o[n].v.t = "string"

StringOf(val, key) == val.o[CHOOSE n \in 1..Len(val.o) : val.o[n].k = key].v.s

\* the values of an array that are not arrays, nested ones included, in order
RECURSIVE Leaves(_)
Leaves(val) ==
  IF val.t # "array" THEN <<val>>
  ELSE IF val.a = <<>> THEN <<>>
  ELSE Leaves(Head(val.a)) \o Leaves(Arr(Tail(val.a)))

\* the line that the claimed precedence gives a value that is not an array
LineOf(val, line) ==
  IF val.t = "string" THEN line.to = "info" /\ line.what = val.s
  ELSE IF HasString(val, sOutput)
    THEN line.to = "info" /\ line.what = StringOf(val, sOutput)
  ELSE IF HasString(val, sMessage)
    THEN /\ line.what = StringOf(val, sMessage)
         /\ line.to = IF \E n \in 1..Len(val.o) :
                           val.o[n].k = sSuccess /\ val.o[n].v = Bool(FALSE)
                        THEN "error" ELSE "success"
  ELSE IF HasString(val, sError)
    THEN line.to = "error" /\ line.what = StringOf(val, sError)
  ELSE line.to = "info" /\ line.what = JSONstringify(val)

\* C20: in text or streaming format, formatOutput prints one line for each
\* value of the result that is not an array, in array order.  The line is
\* chosen by the first shape the value has: a string is printed as it is; an
\* object with a string output prints that output; an object with a string
\* message prints that message, as an error line when its success is false
\* and as a success line otherwise; an object with a string error prints it
\* as an error line; anything else is printed as a JSON dump.
C20_TextFormattingByShape ==
  FormattedAsText =>
    /\ Len(printed) = Len(Leaves(result))
    /\ \A n \in 1..Len(printed) : LineOf(Leaves(result)[n], printed[n])

\* the array of a success object and a failure object is printed as a success
\* line followed by an error line
C20_Witness ==
  /\ pc = "formatted"
  /\ fmt = Str(sText)
  /\ result = Arr(<<Obj(<<[k |-> sMessage, v |-> Str(sOk)],
                          [k |-> sSuccess, v |-> Bool(TRUE)]>>),
                    Obj(<<[k |-> sMessage, v |-> Str(sBad)],
                          [k |-> sSuccess, v |-> Bool(FALSE)]>>)>>)
  /\ printed = <<Success(sOk), Error(sBad)>>

(***************************************************************************)
(* Local fallback and cold start                                           *)
(***************************************************************************)
\* argv lets the run look for a server: no --local, no version, no server mode
DiscoveringInvocation ==
  /\ ~includes(argv, tLocal)
  /\ ~includes(argv, tVersion) /\ ~includes(argv, tV1)
  /\ ~includes(argv, tServer)

\* what local execution binds and prints when argv is run with no lockfile
ColdOptions ==
  ObjDelete(ObjDelete(parseArgs(argv, procedures).options, sFormat), <<"f">>)

ColdInput ==
  parseFromSchema(parseArgs(argv, procedures).args, ColdOptions,
                  MetaOf(procedures, ResolvedPath))

ColdFormat ==
  OutputFormat(parseArgs(argv, procedures).options, MetaOf(procedures, ResolvedPath))

\* the last handler execution of this run was made by this process
LastCallIsLocal ==
  Len(CallsOfRun) > 0 /\ CallsOfRun[Len(CallsOfRun)].via = "local"

\* C21: for every argv without --local, local execution is the same whether
\* the run found no lockfile, a dead pid, a path the client does not know or a
\* failing remote call: it starts from the tokens, flags and path parsed from
\* argv with nothing printed and exit code 0, binds the same input, and ends
\* with the same output, output format and exit code.
C21_FallbackIsColdStart ==
  DiscoveringInvocation =>
    /\ (pc = "local" =>
          /\ path = ResolvedPath
          /\ args = parseArgs(argv, procedures).args
          /\ options = parseArgs(argv, procedures).options
          /\ printed = <<>> /\ exitCode = 0
          /\ BindIdle)
    /\ (pc = "invoke" =>
          /\ path = ResolvedPath
          /\ input = ColdInput
          /\ printed = <<>> /\ exitCode = 0)
    /\ ((pc = "done" /\ LastCallIsLocal) =>
          /\ CallsOfRun[Len(CallsOfRun)].path = ResolvedPath
          /\ CallsOfRun[Len(CallsOfRun)].input = ColdInput
          /\ IF CallsOfRun[Len(CallsOfRun)].outcome = "returned"
               THEN printed = <<Result(ColdFormat)>> /\ exitCode = 0
               ELSE printed = <<Error("Error")>> /\ exitCode = 1)

\* a live server was found, its call failed after the handler had thrown, and
\* the local execution that followed printed the result in the format asked for
C21_Witness ==
  /\ DiscoveringInvocation
  /\ lockfile = "present" /\ alive
  /\ pc = "done" /\ invocation = 1
  /\ Len(calls) = 2
  /\ calls[1].via = "remote" /\ calls[1].outcome = "threw"
  /\ calls[2].via = "local" /\ calls[2].outcome = "returned"
  /\ ResolvedPath = <<tA>>
  /\ ObjGet(parseArgs(argv, procedures).options, sFormat) = Str(sJson)
  /\ printed = <<Result(Str(sJson))>>

(***************************************************************************)
(* Errors of local execution                                               *)
(***************************************************************************)
\* the try block of run is left by a throw: the schema rejects the input, so
\* that no handler is called, or the handler that was called throws
LocalThrowStep ==
  /\ pc = "invoke" /\ pc' = "done"
  /\ \/ calls' = calls
     \/ /\ Len(calls') = Len(calls) + 1
        /\ calls'[Len(calls')].via = "local"
        /\ calls'[Len(calls')].outcome = "threw"

\* C23: when the validation of the input or the handler throws during local
\* execution, the run prints the message with the Error: prefix, sets exit
\* code 1 and prints no formatted result.
C23_LocalErrorsReported ==
  [][LocalThrowStep =>
       /\ printed' = Append(printed, Error("Error"))
       /\ exitCode' = 1
       /\ \A n \in 1..Len(printed') : printed'[n].what # "result"]_vars

\* the handler was called in this process and threw, with no server around
C23_Witness ==
  /\ lockfile = "absent"
  /\ pc = "done" /\ invocation = 1
  /\ Len(calls) = 1 /\ calls[1].via = "local" /\ calls[1].outcome = "threw"
  /\ printed = <<Error("Error")>>
  /\ exitCode = 1

(***************************************************************************)
(* Server mode.  Several processes share the lockfile: servers, which run  *)
(* startServerMode, and client invocations, which run the discovery of     *)
(* tryClientMode.  processes[p] is the position of process p and, for a    *)
(* client, the lockfile content it has read.  Here the lockfile is the     *)
(* handle a server wrote, or NoHandle when there is no file.  A step is    *)
(* one process running up to its next await, or a signal reaching a        *)
(* server.                                                                 *)
(***************************************************************************)
MaxServers == 2
MaxClients == 1

Servers == 1..MaxServers
Clients == (MaxServers + 1)..(MaxServers + MaxClients)

\* the data written to the lockfile by the process pid
Handle(pid) == [pid |-> pid, endpoint |-> pid]

\* no lockfile: readLockfile returns null
NoHandle == [pid |-> 0, endpoint |-> 0]

\* the process exists: process.kill(pid, 0) does not throw
Alive(pid) ==
  /\ pid \in Servers
  /\ processes[pid].pc \in {"starting", "created", "written", "running",
                            "stopping", "removed"}

ServersInit ==
  /\ processes = [p \in Servers \cup Clients |-> [pc |-> "idle", seen |-> NoHandle]]
  /\ pc = "serve"
  /\ argv = <<>> /\ procedures = <<>> /\ i = 1 /\ path = <<>>
  /\ args = <<>> /\ options = <<>>
  /\ lockfile = NoHandle
  /\ alive = FALSE /\ exitCode = 0 /\ printed = <<>> /\ calls = <<>>
  /\ fsops = <<>> /\ invocation = 1 /\ loaded = FALSE
  /\ BindIdle /\ CoerceIdle /\ FormatIdle

Moves(p, to) ==
  /\ processes' = [processes EXCEPT ![p].pc = to]
  /\ UNCHANGED <<pc, inVars, parseVars, bindVars, coerceVars, hostVars,
                 exitCode, printed, calls>>

\* startServerMode is entered: the procedures are loaded
ServerStart(p) ==
  /\ processes[p].pc = "idle"
  /\ Moves(p, "starting")
  /\ UNCHANGED lockfile

\* client.call of server.create returns
ServerCreate(p) ==
  /\ processes[p].pc = "starting"
  /\ Moves(p, "created")
  /\ UNCHANGED lockfile

\* client.call of server.create throws: startServerMode is left, the process ends
ServerCreateFails(p) ==
  /\ processes[p].pc = "starting"
  /\ Moves(p, "failed")
  /\ UNCHANGED lockfile

\* the lockfile written as soon as startServerMode is entered
ServerWriteLockfileEarly(p) ==
  /\ processes[p].pc = "starting"
  /\ lockfile' = Handle(p)
  /\ Moves(p, "written")

\* writeLockfile({pid: process.pid, ...}): an existing lockfile is replaced
ServerWriteLockfile(p) ==
  /\ processes[p].pc = "created"
  /\ lockfile' = Handle(p)
  /\ Moves(p, "written")

\* the endpoints are printed, cleanup is registered for SIGINT and SIGTERM
ServerListen(p) ==
  /\ processes[p].pc = "written"
  /\ Moves(p, "running")
  /\ UNCHANGED lockfile

\* SIGINT or SIGTERM reaches the process: cleanup starts when it is
\* registered, and the process is ended by the signal when it is not yet
ServerSignal(p) ==
  /\ processes[p].pc \in {"starting", "created", "written", "running"}
  /\ Moves(p, IF processes[p].pc = "running" THEN "stopping" ELSE "killed")
  /\ UNCHANGED lockfile

\* cleanup: removeLockfile, whatever the lockfile holds
ServerRemoveLockfile(p) ==
  /\ processes[p].pc = "stopping"
  /\ lockfile' = NoHandle
  /\ Moves(p, "removed")

\* cleanup: process.exit(0)
ServerExit(p) ==
  /\ processes[p].pc = "removed"
  /\ Moves(p, "exited")
  /\ UNCHANGED lockfile

\* tryClientMode: readLockfile; null when there is no lockfile
ClientRead(p) ==
  /\ processes[p].pc = "idle"
  /\ processes' = [processes EXCEPT ![p] =
                     [pc |-> IF lockfile = NoHandle THEN "local" ELSE "probe",
                      seen |-> lockfile]]
  /\ UNCHANGED <<pc, inVars, parseVars, bindVars, coerceVars, runVars>>

\* isServerAlive: process.kill(lockfile.pid, 0) on the pid that was read
ClientProbe(p) ==
  /\ processes[p].pc = "probe"
  /\ Moves(p, IF Alive(processes[p].seen.pid) THEN "remote" ELSE "cleanup")
  /\ UNCHANGED lockfile

\* isServerAlive: removeLockfile after the probe has failed
ClientRemoveLockfile(p) ==
  /\ processes[p].pc = "cleanup"
  /\ lockfile' = NoHandle
  /\ Moves(p, "local")

ServersNext ==
  \/ \E p \in Servers :
       \/ ServerStart(p) \/ ServerCreate(p) \/ ServerCreateFails(p)
       \/ ServerWriteLockfile(p) \/ ServerListen(p) \/ ServerSignal(p)
       \/ ServerRemoveLockfile(p) \/ ServerExit(p)
  \/ \E p \in Clients :
       ClientRead(p) \/ ClientProbe(p) \/ ClientRemoveLockfile(p)

SpecServers == ServersInit /\ [][ServersNext]_vars

(***************************************************************************)
(* The lifecycle of the server handle                                      *)
(***************************************************************************)
\* C22: a server writes the lockfile, naming its own pid and endpoint, only
\* in the step that follows the successful creation of the server; a signal
\* reaching a running server starts its cleanup, which deletes the lockfile
\* before the process exits, so that the lockfile of an exited server never
\* names it.
C22_HandleLifecycle ==
  /\ [][\A p \in Servers :
          (lockfile' = Handle(p) /\ lockfile # Handle(p)) =>
             (processes[p].pc = "created" /\ processes'[p].pc = "written")]_vars
  /\ [][\A p \in Servers :
          (processes[p].pc = "running" /\ processes'[p].pc # "running") =>
             processes'[p].pc = "stopping"]_vars
  /\ [][\A p \in Servers :
          (processes'[p].pc = "exited" /\ processes[p].pc # "exited") =>
             (processes[p].pc = "removed" /\ lockfile # Handle(p))]_vars
  /\ [](\A p \in Servers :
          /\ processes[p].pc \in {"idle", "starting", "created", "failed", "exited"}
               => lockfile # Handle(p)
          /\ processes[p].pc = "removed" => lockfile # Handle(p))

\* a server has been created, has written its lockfile, was interrupted and
\* has exited, leaving no lockfile, while the creation of the other failed
C22_Witness ==
  /\ processes[1].pc = "exited"
  /\ processes[2].pc = "failed"
  /\ lockfile = NoHandle

\* C29: the lockfile of a server that is alive and has finished its startup
\* is never deleted by another process, neither by the cleanup of a client
\* that found a dead pid nor by the shutdown of another server.
C29_LiveHandleNeverDeleted ==
  [][\A p \in Servers :
       (lockfile = Handle(p) /\ processes[p].pc = "running"
          /\ processes'[p] = processes[p])
       => lockfile' # NoHandle]_vars

(***************************************************************************)
(* The version flag                                                        *)
(***************************************************************************)
\* C24: whenever argv contains --version or -v, at any position, the run
\* prints the version and ends with exit code 0, without loading the
\* procedures, without entering server mode, without reading, probing or
\* removing the lockfile and without executing any handler.
C24_VersionOnly ==
  /\ []((includes(argv, tVersion) \/ includes(argv, tV1)) =>
          /\ pc \in {"run", "done"}
          /\ ~loaded
          /\ fsops = <<>>
          /\ calls = <<>>
          /\ exitCode = 0
          /\ (pc = "done" => printed = <<Info("version")>>))
  /\ [][(includes(argv, tVersion) \/ includes(argv, tV1)) => lockfile' = lockfile]_vars

\* -v after --server and a handler path, with a live server around: only the
\* version has been printed
C24_Witness ==
  /\ argv = <<tServer, tA, tV1>>
  /\ lockfile = "present" /\ alive
  /\ pc = "done"
  /\ printed = <<Info("version")>>
  /\ ~loaded /\ calls = <<>> /\ fsops = <<>>

(***************************************************************************)
(* Group help                                                              *)
(***************************************************************************)
\* the resolved path is not empty, has children and is no handler
GroupInvocation ==
  /\ CommandInvocation
  /\ Len(ResolvedPath) > 0
  /\ ~findProcedureHas(procedures, ResolvedPath)
  /\ Len(findChildren(procedures, ResolvedPath)) > 0

\* q is p followed by at least n more segments
Below(q, p, n) == Len(q) >= Len(p) + n /\ SubSeq(q, 1, Len(p)) = p

\* help lists, in the order of the registry, the procedures one segment below
\* p under their last segment with their description, and once each the
\* segments that lead to the procedures further below
ListsGroup(help, p) ==
  /\ help.what = "groupHelp" /\ help.to = "info"
  /\ \A n \in 1..Len(help.children) :
       \E m \in 1..Len(procedures) :
         /\ procedures[m].path = p \o <<help.children[n].name>>
         /\ help.children[n].desc = Description(procedures[m])
  /\ \A m \in 1..Len(procedures) :
       (Below(procedures[m].path, p, 1) /\ Len(procedures[m].path) = Len(p) + 1) =>
          \E n \in 1..Len(help.children) :
            help.children[n].name = procedures[m].path[Len(p) + 1]
  /\ \A n \in 1..Len(help.groups) :
       \E m \in 1..Len(procedures) :
         /\ Below(procedures[m].path, p, 2)
         /\ procedures[m].path[Len(p) + 1] = help.groups[n]
  /\ \A m \in 1..Len(procedures) :
       Below(procedures[m].path, p, 2) =>
          \E n \in 1..Len(help.groups) : help.groups[n] = procedures[m].path[Len(p) + 1]
  /\ \A n, m \in 1..Len(help.groups) : help.groups[n] = help.groups[m] => n = m

HandlerPrefix(p) ==
  \E h \in PathsOf(procedures) : Len(p) <= Len(h) /\ SubSeq(h, 1, Len(p)) = p

\* argv starts with a token that is not a flag
LeadingWord == Len(argv) > 0 /\ ~IsFlagToken(argv[1])

Shadowed(h) ==
  \E g \in PathsOf(procedures) :
    Len(g) > 0 /\ Len(g) < Len(h) /\ SubSeq(h, 1, Len(g)) = g

sLocal == <<"l", "o", "c", "a", "l">>
sVerbose == <<"v", "e", "r", "b", "o", "s", "e">>

\* the keys the reserved flags --format, --local, --verbose and -V are
\* parsed into
ReservedKeys == {sFormat, sLocal, sVerbose, <<"V">>}

\* C28: the reserved flags are not procedure input: on every dispatch path,
\* remote and local, the input bound for the handler has no key that comes
\* from --format, --local or --verbose/-V.
C28_ReservedFlagsNotInput ==
  \A n \in 1..Len(calls) :
    calls[n].via \in {"remote", "local"} =>
      \A key \in ReservedKeys : ~ObjHas(calls[n].input, key)

(***************************************************************************)
(* Short flags from the command line to the handler                        *)
(***************************************************************************)
\* C30: for every handler and every single-character alias x of its shorts
\* metadata, a local invocation of the handler with -x on the command line
\* passes the handler an input in which the aliased field is bound.
C30_ShortFlagBoundLocally ==
  \A n \in 1..Len(calls) :
    calls[n].via = "local" =>
      LET shorts == MetaOf(procedures, calls[n].path).shorts
      IN \A m \in 1..Len(shorts) :
           (Len(shorts[m].v) = 1 /\ includes(argv, <<"-">> \o shorts[m].v))
             => ObjHas(calls[n].input, shorts[m].k)

====
